---- MODULE Spec2Model ----
(***************************************************************************)
(* Offline threat-analysis pipeline of audio-intent-whisper.               *)
(*                                                                         *)
(* The module models the keyword matcher, the chunk analyzer, the session  *)
(* aggregator, the threat scorer, the explanation generator and the        *)
(* orchestrator analyzeSessionThreats together with the IndexedDB stores   *)
(* it reads and writes.                                                    *)
(*                                                                         *)
(* Three specifications are given:                                         *)
(*   SpecScore  calculateThreatScore applied to arbitrary bounded inputs   *)
(*   SpecChunk  detectThreatsInChunk applied to bounded chunks and texts   *)
(*   Spec       analyzeSessionThreats invocations over the stores          *)
(***************************************************************************)
EXTENDS Integers, Sequences, FiniteSets, TLC

VARIABLES
    scoreArgs,      \* arguments of one calculateThreatScore call
    scoreResult,    \* the ThreatScore it returned, or NoResult
    chunkArgs,      \* arguments of one detectThreatsInChunk call
    chunkResult,    \* the ChunkThreatAnalysis it returned, or NoResult
    aggArgs,        \* arguments of one aggregateSessionMatches call
    aggResult,      \* the aggregate and its ThreatScore, or NoResult
    transcripts,    \* object store 'transcripts', in primary-key order
    translations,   \* object store 'translations', in primary-key order
    threatAnalysis, \* object store 'threatAnalysis', in primary-key order
    clock,          \* Date.now()
    proc,           \* state of each analyzeSessionThreats invocation
    latest,         \* per session, the record of its latest successful run
    storeCall,      \* the last call of the threat analysis storage service
    page,           \* React state of the Index page and its running handlers
    sessions,       \* object store 'sessions': the status of each session
    whisper         \* module state of the Whisper service and its callers

scoreVars == <<scoreArgs, scoreResult>>
chunkVars == <<chunkArgs, chunkResult>>
aggVars == <<aggArgs, aggResult>>
pipeVars == <<transcripts, translations, threatAnalysis, clock, proc, latest>>
appVars == <<storeCall, page, sessions, whisper>>
vars == <<scoreArgs, scoreResult, chunkArgs, chunkResult, aggArgs, aggResult,
          transcripts, translations, threatAnalysis, clock, proc, latest,
          storeCall, page, sessions, whisper>>

NoResult == [none |-> TRUE]

(***************************************************************************)
(* Bounds of the model.                                                    *)
(***************************************************************************)
\* largest per-category count given to calculateThreatScore in SpecScore
MaxCount == 2
\* largest chunksInvolved given to calculateThreatScore in SpecScore
MaxChunksInvolved == 5
\* largest number of pieces of a source text in SpecChunk
MaxWords == 2
\* largest number of pieces of a translated text in SpecChunk
MaxTranslatedWords == 1
\* largest number of records of the store 'transcripts' in Spec
MaxTranscripts == 3
\* largest number of records of the store 'translations' in Spec
MaxTranslations == 1
\* largest value of Date.now() in Spec
MaxClock == 1

(***************************************************************************)
(* Threat dictionaries (src/data/threatDictionaries).                      *)
(***************************************************************************)
\* THREAT_DICTIONARIES.hindi; entries outside ASCII are written as the
\* hexadecimal code points of their characters (a run starts with "u").
hindi_dictionary ==
    [ violent_actions |-> <<
          "u092e093e09300928093e", "u0939092e0932093e", "u0927092e093e0915093e",
          "u0935093f0938094d092b094b091f", "u09390924094d092f093e",
          "u092e093e0930", "u0924094b0921093c", "u09280937094d091f",
          "u09160924094d092e", "u0927094d09350938094d0924",
          "u09060915094d0930092e0923", "u092a094d09300939093e0930",
          "u0935093e0930", "u0917094b09320940", "u092b093e092f0930"
        >>,
      weapons |-> <<
          "u092c092e", "u092c0902092609420915", "u09390925093f092f093e0930",
          "u0917094b0932093e", "u0935093f0938094d092b094b091f0915",
          "u092a093f0938094d0924094c0932", "u0930093e0907092b0932",
          "u0917094d09300947092809470921", "u092c093e093009420926",
          "u0917094b09320940", "u090f09150947-47",
          "u0906093009210940090f0915094d0938", "u0924094b092a",
          "u092e093f0938093e09070932"
        >>,
      events |-> <<
          "u0935093f0938094d092b094b091f", "u0939092e0932093e",
          "u0918091f0928093e", "u0927092e093e0915093e", "u0906092409020915",
          "u0939092e09320947", "u092c094d0932093e0938094d091f",
          "u092b093e092f0930093f09020917", "u0917094b09320940092c093e09300940",
          "u0938090209180930094d0937", "u092f09410926094d0927",
          "u09320921093c093e0908", "u091d0921093c092a"
        >>,
      targets |-> <<
          "u093809470928093e", "u092a09410932093f0938", "u091509480902092a",
          "u0925093e0928093e", "u091a094c09150940", "u092c09470938",
          "u0938094d091f094709360928", "u092e09410916094d092f093e0932092f",
          "u093809300915093e0930", "u092e09020924094d09300940",
          "u09050927093f0915093e09300940", "u091c0935093e0928",
          "u093809480928093f0915", "u092b094c091c"
        >>,
      urgency |-> <<
          "u0905092d0940", "u091c0932094d09260940", "u09240941093009020924",
          "u092b094c09300928", "u0906091c", "u0905092c", "u093609400918094d0930",
          "u09240924094d0915093e0932", "u090709380940 u09350915094d0924"
        >> ]

\* THREAT_DICTIONARIES.urdu; entries outside ASCII are written as the
\* hexadecimal code points of their characters (a run starts with "u").
urdu_dictionary ==
    [ violent_actions |-> <<
          "u0642062a0644", "u064506270631", "u062d0645064406c1",
          "u062f06be0645062706a906c1", "u062a0628062706c106cc", "u062e062a0645",
          "u062a06480691", "u06460642063506270646", "u063606310628",
          "u064806270631", "u0641062706260631", "u06af0648064406cc",
          "u062d0645064406c1 u06a9063106460627", "u06450627063106460627"
        >>,
      weapons |-> <<
          "u06280645", "u06280646062f06480642", "u06c1062a06be06cc06270631",
          "u06af0648064406c1", "u062f06be0645062706a906c1 u062e06cc0632",
          "u067e0633062a06480644", "u06310627062606410644",
          "u06af063106cc064606cc0688", "u0628062706310648062f",
          "u06af0648064406cc", "u062706d2 u06a906d2 47",
          "u06220631 u068806cc u062706cc06a90633", "u062a0648067e",
          "u064506cc0632062706260644"
        >>,
      events |-> <<
          "u062f06be0645062706a906c1", "u062d0645064406c1",
          "u064806270642063906c1", "u06c1064606af0627064506c1",
          "u062f06c10634062a", "u06280644062706330679",
          "u0641062706260631064606af", "u06af0648064406cc u06280627063106cc",
          "u062a06350627062f0645", "u062c064606af", "u064406910627062606cc",
          "u062c06be0691067e"
        >>,
      targets |-> <<
          "u06410648062c", "u067e0648064406cc0633", "u06a906cc0645067e",
          "u062a06be0627064606c1", "u0686064806a906cc", "u062806cc0633",
          "u06270633067906cc06340646", "u06c106cc068806a906480627063106790631",
          "u062d06a906480645062a", "u0648063206cc0631", "u0627064106330631",
          "u062c064806270646", "u0633067e062706c106cc", "u06410648062c06cc"
        >>,
      urgency |-> <<
          "u0627062806be06cc", "u062c0644062f06cc", "u06410648063106cc",
          "u0641064806310627064b", "u0622062c", "u06270628",
          "u062a06cc063206cc u063306d2", "u064106cc u06270644064106480631",
          "u0627063306cc u06480642062a"
        >> ]

\* THREAT_DICTIONARIES.kashmiri; entries outside ASCII are written as the
\* hexadecimal code points of their characters (a run starts with "u").
kashmiri_dictionary ==
    [ violent_actions |-> <<
          "u064506270631064f0646", "u062d0645064406c1",
          "u062f06be0645062706a906c1", "u062a0628062706c106cc", "u062e062a0645",
          "u062a06480691", "u06460642063506270646", "u064806270631",
          "u0641062706260631", "u06af0648064406cc",
          "u062d0645064406c1 u06a90631064f0646",
          "u064506270631 u068806270644064f0646"
        >>,
      weapons |-> <<
          "u06280645", "u06280646062f06480642", "u06c1062a06be06cc06270631",
          "u06af0648064406c1", "u062f06be0645062706a906c1 u062e06cc0632",
          "u067e0633062a06480644", "u06310627062606410644",
          "u06af063106cc064606cc0688", "u0628062706310648062f",
          "u06af0648064406cc", "u062706d2 u06a906d2",
          "u06220631 u068806cc u062706cc06a90633"
        >>,
      events |-> <<
          "u062f06be0645062706a906c1", "u062d0645064406c1",
          "u064806270642063906c1", "u06c1064606af0627064506c1",
          "u062f06c10634062a", "u06280644062706330679",
          "u0641062706260631064606af", "u06af0648064406cc u06280627063106cc",
          "u062a06350627062f0645", "u062c064606af", "u064406910627062606cc"
        >>,
      targets |-> <<
          "u06410648062c", "u067e0648064406cc0633", "u06a906cc0645067e",
          "u062a06be0627064606c1", "u0686064806a906cc", "u062806cc0633",
          "u06270633067906cc06340646", "u062d06a906480645062a",
          "u0627064106330631", "u062c064806270646", "u0633067e062706c106cc",
          "u06410648062c06cc"
        >>,
      urgency |-> <<
          "u0627062806be06cc", "u062c0644062f06cc", "u06410648063106cc",
          "u0641064806310627064b", "u0622062c", "u06270628", "u062a06cc063206cc",
          "u0627063306cc u06480642062a"
        >> ]

\* THREAT_DICTIONARIES.english
english_dictionary ==
    [ violent_actions |-> <<
          "kill", "attack", "strike", "assault", "destroy", "eliminate",
          "murder", "shoot", "fire", "hit", "blow up", "detonate", "explode",
          "raid", "ambush", "target", "neutralize", "execute"
        >>,
      weapons |-> <<
          "bomb", "gun", "weapon", "explosive", "grenade", "pistol", "rifle",
          "ak-47", "ak47", "firearm", "ammunition", "bullet", "rdx", "ied",
          "missile", "rocket", "launcher", "artillery", "mine"
        >>,
      events |-> <<
          "blast", "explosion", "attack", "incident", "strike", "bombing",
          "shooting", "firing", "gunfire", "clash", "encounter", "operation",
          "raid", "ambush", "assault", "terror", "terrorism", "militant"
        >>,
      targets |-> <<
          "army", "military", "police", "camp", "base", "station", "post",
          "checkpoint", "headquarters", "hq", "government", "minister",
          "officer", "soldier", "troop", "force", "security", "patrol", "convoy"
        >>,
      urgency |-> <<
          "now", "immediately", "urgent", "asap", "today", "tonight", "soon",
          "quick", "fast", "hurry", "emergency", "critical", "priority"
        >> ]
THREAT_DICTIONARIES ==
    [ hindi |-> hindi_dictionary,
      urdu |-> urdu_dictionary,
      kashmiri |-> kashmiri_dictionary,
      english |-> english_dictionary ]

\* lower-case form of the upper-case ASCII letters
UpperToLower ==
    [ A |-> "a", B |-> "b", C |-> "c", D |-> "d", E |-> "e", F |-> "f",
      G |-> "g", H |-> "h", I |-> "i", J |-> "j", K |-> "k", L |-> "l",
      M |-> "m", N |-> "n", O |-> "o", P |-> "p", Q |-> "q", R |-> "r",
      S |-> "s", T |-> "t", U |-> "u", V |-> "v", W |-> "w", X |-> "x",
      Y |-> "y", Z |-> "z" ]

\* String.prototype.toLowerCase, character by character (the letters written
\* as code points have no case)
RECURSIVE toLowerCase(_)
toLowerCase(s) ==
    IF s = "" THEN ""
    ELSE LET c == Head(s)
         IN  (IF c \in DOMAIN UpperToLower THEN UpperToLower[c] ELSE c)
             \o toLowerCase(Tail(s))

\* getThreatDictionary looking the identifier up as it is spelt
getThreatDictionaryCaseSensitive(language) ==
    IF language \in DOMAIN THREAT_DICTIONARIES
    THEN THREAT_DICTIONARIES[language]
    ELSE THREAT_DICTIONARIES.english

\* getThreatDictionary: the language's dictionary, English when unknown
getThreatDictionary(language) ==
    LET normalizedLang == toLowerCase(language)
    IN  IF normalizedLang \in DOMAIN THREAT_DICTIONARIES
        THEN THREAT_DICTIONARIES[normalizedLang]
        ELSE THREAT_DICTIONARIES.english

\* getThreatCategories
getThreatCategories == <<"violent_actions", "weapons", "events", "targets", "urgency">>

ThreatCategory == {"violent_actions", "weapons", "events", "targets", "urgency"}

(***************************************************************************)
(* Threat scorer (src/services/threatScoringService.ts).                   *)
(***************************************************************************)
WeightViolentActions == 2
WeightWeapons == 3
WeightEvents == 2
WeightTargets == 2
WeightUrgency == 1

CATEGORY_WEIGHTS ==
    [ violent_actions |-> WeightViolentActions,
      weapons |-> WeightWeapons,
      events |-> WeightEvents,
      targets |-> WeightTargets,
      urgency |-> WeightUrgency ]

SuspiciousMin == 3
HighRiskMin == 6

SEVERITY_THRESHOLDS ==
    [ SAFE |-> [min |-> 0],
      SUSPICIOUS |-> [min |-> SuspiciousMin],
      HIGH_RISK |-> [min |-> HighRiskMin] ]

\* sum of f[seq[i]] over the positions of seq
RECURSIVE SumOver(_, _)
SumOver(f, seq) ==
    IF seq = <<>> THEN 0 ELSE f[Head(seq)] + SumOver(f, Tail(seq))

\* getSeverity with the comparisons made strict
getSeverityStrict(score) ==
    IF score > SEVERITY_THRESHOLDS.HIGH_RISK.min THEN "HIGH_RISK"
    ELSE IF score > SEVERITY_THRESHOLDS.SUSPICIOUS.min THEN "SUSPICIOUS"
    ELSE "SAFE"

\* getSeverity
getSeverity(score) ==
    IF score >= SEVERITY_THRESHOLDS.HIGH_RISK.min THEN "HIGH_RISK"
    ELSE IF score >= SEVERITY_THRESHOLDS.SUSPICIOUS.min THEN "SUSPICIOUS"
    ELSE "SAFE"

\* CATEGORY_WEIGHTS[category] || 1
categoryWeight(category) ==
    IF category \in DOMAIN CATEGORY_WEIGHTS /\ CATEGORY_WEIGHTS[category] # 0
    THEN CATEGORY_WEIGHTS[category]
    ELSE 1

\* the repetition bonus without the halving
repetitionFactorLinear(totalMatches, uniqueWordCount) ==
    IF uniqueWordCount > 0 /\ totalMatches > uniqueWordCount
    THEN totalMatches - uniqueWordCount
    ELSE 0

\* the repetition bonus counted as the repeats per unique word
repetitionFactorPerWord(totalMatches, uniqueWordCount) ==
    IF uniqueWordCount > 0 /\ totalMatches > uniqueWordCount
    THEN (totalMatches - uniqueWordCount) \div uniqueWordCount
    ELSE 0

\* the repetition bonus of calculateThreatScore
repetitionFactor(totalMatches, uniqueWordCount) ==
    IF uniqueWordCount > 0 /\ totalMatches > uniqueWordCount
    THEN (totalMatches - uniqueWordCount) \div 2
    ELSE 0

\* the spread bonus granted from two chunks on
spreadBonusFromTwo(chunksInvolved) ==
    IF chunksInvolved >= 2 THEN chunksInvolved \div 2 ELSE 0

\* the spread bonus of calculateThreatScore
spreadBonus(chunksInvolved) ==
    IF chunksInvolved > 2 THEN chunksInvolved \div 2 ELSE 0

\* calculateThreatScore returning the base score without the bonuses
calculateThreatScoreNoBonus(chunkAnalyses, categoryBreakdown, uniqueWords, chunksInvolved) ==
    LET categoryScore == [c \in DOMAIN categoryBreakdown |->
                             categoryBreakdown[c] * categoryWeight(c)]
        totalMatches == SumOver(categoryBreakdown, getThreatCategories)
        bonus == repetitionFactor(totalMatches, Cardinality(uniqueWords))
                 + spreadBonus(chunksInvolved)
        baseScore == SumOver(categoryScore, getThreatCategories)
    IN  [ score |-> baseScore,
          severity |-> getSeverity(baseScore),
          breakdown |-> [ violent_actions |-> categoryScore.violent_actions,
                          weapons |-> categoryScore.weapons,
                          events |-> categoryScore.events,
                          targets |-> categoryScore.targets,
                          urgency |-> categoryScore.urgency,
                          repetition_bonus |-> bonus ] ]

\* calculateThreatScore with the default of 1 applied to the count instead of
\* the weight
calculateThreatScoreDefaultingCount(chunkAnalyses, categoryBreakdown, uniqueWords, chunksInvolved) ==
    LET categoryScore == [c \in DOMAIN categoryBreakdown |->
                             (IF categoryBreakdown[c] = 0 THEN 1
                              ELSE categoryBreakdown[c]) * CATEGORY_WEIGHTS[c]]
        totalMatches == SumOver(categoryBreakdown, getThreatCategories)
        uniqueWordCount == Cardinality(uniqueWords)
        bonus == repetitionFactor(totalMatches, uniqueWordCount)
                 + spreadBonus(chunksInvolved)
        baseScore == SumOver(categoryScore, getThreatCategories) + bonus
    IN  [ score |-> baseScore,
          severity |-> getSeverity(baseScore),
          breakdown |-> [ violent_actions |-> categoryScore.violent_actions,
                          weapons |-> categoryScore.weapons,
                          events |-> categoryScore.events,
                          targets |-> categoryScore.targets,
                          urgency |-> categoryScore.urgency,
                          repetition_bonus |-> bonus ] ]

\* calculateThreatScore
calculateThreatScore(chunkAnalyses, categoryBreakdown, uniqueWords, chunksInvolved) ==
    LET categoryScore == [c \in DOMAIN categoryBreakdown |->
                             categoryBreakdown[c] * categoryWeight(c)]
        totalMatches == SumOver(categoryBreakdown, getThreatCategories)
        uniqueWordCount == Cardinality(uniqueWords)
        bonus == repetitionFactor(totalMatches, uniqueWordCount)
                 + spreadBonus(chunksInvolved)
        baseScore == SumOver(categoryScore, getThreatCategories) + bonus
    IN  [ score |-> baseScore,
          severity |-> getSeverity(baseScore),
          breakdown |-> [ violent_actions |-> categoryScore.violent_actions,
                          weapons |-> categoryScore.weapons,
                          events |-> categoryScore.events,
                          targets |-> categoryScore.targets,
                          urgency |-> categoryScore.urgency,
                          repetition_bonus |-> bonus ] ]

(***************************************************************************)
(* Keyword matcher and chunk analyzer (src/services/threatDetectionService).*)
(***************************************************************************)
\* the characters removed by tokenizeText: /[.,!?;:()[\]{}'"]/
Punctuation == {".", ",", "!", "?", ";", ":", "(", ")", "[", "]", "{", "}", "'", "\""}

\* the characters matched by \s in the model's texts
Whitespace == {" ", "\t", "\n"}

\* text.replace(/[.,!?;:()[\]{}'"]/g, ' ')
RECURSIVE replacePunctuation(_)
replacePunctuation(text) ==
    IF text = "" THEN ""
    ELSE (IF Head(text) \in Punctuation THEN " " ELSE Head(text))
         \o replacePunctuation(Tail(text))

\* cleaned.split(/\s+/): cur is the piece being read, inSep tells that the
\* previous character belonged to a separator
RECURSIVE splitWhitespace(_, _, _)
splitWhitespace(s, cur, inSep) ==
    IF s = "" THEN <<cur>>
    ELSE IF Head(s) \in Whitespace
         THEN IF inSep THEN splitWhitespace(Tail(s), cur, TRUE)
              ELSE <<cur>> \o splitWhitespace(Tail(s), "", TRUE)
         ELSE splitWhitespace(Tail(s), cur \o Head(s), FALSE)

\* tokenizeText
tokenizeText(text) ==
    LET cleaned == replacePunctuation(text)
    IN  SelectSeq(splitWhitespace(cleaned, "", FALSE), LAMBDA t : Len(t) > 0)

\* String.prototype.trim: leading white space removed
RECURSIVE trimStart(_)
trimStart(s) ==
    IF s # "" /\ Head(s) \in Whitespace THEN trimStart(Tail(s)) ELSE s

\* String.prototype.trim: trailing white space removed
RECURSIVE trimEnd(_)
trimEnd(s) ==
    IF s # "" /\ SubSeq(s, Len(s), Len(s)) \in Whitespace
    THEN trimEnd(SubSeq(s, 1, Len(s) - 1))
    ELSE s

\* normalizeText
normalizeText(text) == trimEnd(trimStart(toLowerCase(text)))

\* Array.prototype.join(' ')
RECURSIVE joinSpace(_)
joinSpace(tokens) ==
    IF tokens = <<>> THEN ""
    ELSE IF Len(tokens) = 1 THEN tokens[1]
    ELSE tokens[1] \o " " \o joinSpace(Tail(tokens))

ContextSize == 5

\* getContext; index counts from 1 here, so the slice [index - 1 - size,
\* index + size) of the code is the range below
getContext(tokens, index) ==
    LET first == IF index - ContextSize < 1 THEN 1 ELSE index - ContextSize
        last == IF index + ContextSize > Len(tokens) THEN Len(tokens)
                ELSE index + ContextSize
    IN  joinSpace(SubSeq(tokens, first, last))

\* every entry of every dictionary
DictionaryWords ==
    UNION { { THREAT_DICTIONARIES[l][c][i] : i \in 1..Len(THREAT_DICTIONARIES[l][c]) } :
            l \in DOMAIN THREAT_DICTIONARIES, c \in ThreatCategory }

\* normalizeText(word) of every dictionary entry, computed once
NormalizedWord == [w \in DictionaryWords |-> normalizeText(w)]

\* normalizeText(word) for a word of categoryWords
normalizeEntry(word) ==
    IF word \in DOMAIN NormalizedWord THEN NormalizedWord[word]
    ELSE normalizeText(word)

\* categoryWords.find with the test normalizedToken.startsWith(entry), which
\* also accepts a token that only begins with an entry
findWordByPrefix(categoryWords, normalizedToken) ==
    LET hits == {i \in 1..Len(categoryWords) :
                    LET entry == normalizeEntry(categoryWords[i])
                    IN  /\ Len(entry) <= Len(normalizedToken)
                        /\ SubSeq(normalizedToken, 1, Len(entry)) = entry}
    IN  IF hits = {} THEN ""
        ELSE categoryWords[CHOOSE i \in hits : \A j \in hits : i <= j]

\* categoryWords.find(word => normalizeText(word) === normalizedToken); the
\* empty string stands for undefined (both fail the test `if (matchedWord)`)
findWord(categoryWords, normalizedToken) ==
    LET hits == {i \in 1..Len(categoryWords) :
                    normalizeEntry(categoryWords[i]) = normalizedToken}
    IN  IF hits = {} THEN ""
        ELSE categoryWords[CHOOSE i \in hits : \A j \in hits : i <= j]

\* the matches of one token, one per category that lists it
RECURSIVE tokenMatches(_, _, _, _, _)
tokenMatches(dictionary, tokens, index, language, categories) ==
    IF categories = <<>> THEN <<>>
    ELSE LET category == Head(categories)
             matchedWord == findWord(dictionary[category],
                                     normalizeText(tokens[index]))
             rest == tokenMatches(dictionary, tokens, index, language,
                                  Tail(categories))
         IN  IF matchedWord # ""
             THEN << [ chunkId |-> "",
                       word |-> matchedWord,
                       category |-> category,
                       language |-> language,
                       timestamp |-> 0,
                       context |-> getContext(tokens, index) ] >> \o rest
             ELSE rest

\* the matches of the tokens from position index on, a token that occurred
\* earlier in the text being skipped
RECURSIVE matchFromOncePerWord(_, _, _, _)
matchFromOncePerWord(dictionary, tokens, index, language) ==
    IF index > Len(tokens) THEN <<>>
    ELSE (IF \E j \in 1..(index - 1) :
                 normalizeText(tokens[j]) = normalizeText(tokens[index])
          THEN <<>>
          ELSE tokenMatches(dictionary, tokens, index, language, getThreatCategories))
         \o matchFromOncePerWord(dictionary, tokens, index + 1, language)

\* the matches of the tokens from position index on
RECURSIVE matchFrom(_, _, _, _)
matchFrom(dictionary, tokens, index, language) ==
    IF index > Len(tokens) THEN <<>>
    ELSE tokenMatches(dictionary, tokens, index, language, getThreatCategories)
         \o matchFrom(dictionary, tokens, index + 1, language)

\* matchKeywords
matchKeywords(text, language) ==
    matchFrom(getThreatDictionary(language), tokenizeText(text), 1, language)

\* calculateChunkThreatScore counting one point per match
calculateChunkThreatScoreUnweighted(matches) == Len(matches)

\* calculateChunkThreatScore
calculateChunkThreatScore(matches) ==
    IF Len(matches) = 0 THEN 0
    ELSE SumOver([i \in 1..Len(matches) |-> categoryWeight(matches[i].category)],
                 [i \in 1..Len(matches) |-> i])

\* the language tag of the matches found in the translation
TranslatedTag == "english (translated)"

\* detectThreatsInChunk leaving the chunk's language on the translated matches
detectThreatsInChunkUntagged(chunk, sourceText, translatedText) ==
    LET found == matchKeywords(sourceText, chunk.language)
        sourceMatches == [i \in 1..Len(found) |->
                             [found[i] EXCEPT !.chunkId = chunk.chunkId,
                                              !.timestamp = chunk.startTime]]
        foundTranslated == IF translatedText # "" /\ chunk.language # "english"
                           THEN matchKeywords(translatedText, "english")
                           ELSE <<>>
        translatedMatches == [i \in 1..Len(foundTranslated) |->
                                 [foundTranslated[i] EXCEPT
                                     !.chunkId = chunk.chunkId,
                                     !.timestamp = chunk.startTime,
                                     !.language = chunk.language]]
        matches == sourceMatches \o translatedMatches
    IN  [ chunkId |-> chunk.chunkId,
          matches |-> matches,
          threatScore |-> calculateChunkThreatScore(matches),
          hasThreats |-> Len(matches) > 0 ]

\* detectThreatsInChunk matching the translation whatever the chunk's language
detectThreatsInChunkAlwaysTranslating(chunk, sourceText, translatedText) ==
    LET found == matchKeywords(sourceText, chunk.language)
        sourceMatches == [i \in 1..Len(found) |->
                             [found[i] EXCEPT !.chunkId = chunk.chunkId,
                                              !.timestamp = chunk.startTime]]
        foundTranslated == IF translatedText # ""
                           THEN matchKeywords(translatedText, "english")
                           ELSE <<>>
        translatedMatches == [i \in 1..Len(foundTranslated) |->
                                 [foundTranslated[i] EXCEPT
                                     !.chunkId = chunk.chunkId,
                                     !.timestamp = chunk.startTime,
                                     !.language = TranslatedTag]]
        matches == sourceMatches \o translatedMatches
    IN  [ chunkId |-> chunk.chunkId,
          matches |-> matches,
          threatScore |-> calculateChunkThreatScore(matches),
          hasThreats |-> Len(matches) > 0 ]

\* detectThreatsInChunk; translatedText is "" when none was supplied
detectThreatsInChunk(chunk, sourceText, translatedText) ==
    LET found == matchKeywords(sourceText, chunk.language)
        sourceMatches == [i \in 1..Len(found) |->
                             [found[i] EXCEPT !.chunkId = chunk.chunkId,
                                              !.timestamp = chunk.startTime]]
        foundTranslated == IF translatedText # "" /\ chunk.language # "english"
                           THEN matchKeywords(translatedText, "english")
                           ELSE <<>>
        translatedMatches == [i \in 1..Len(foundTranslated) |->
                                 [foundTranslated[i] EXCEPT
                                     !.chunkId = chunk.chunkId,
                                     !.timestamp = chunk.startTime,
                                     !.language = TranslatedTag]]
        matches == sourceMatches \o translatedMatches
    IN  [ chunkId |-> chunk.chunkId,
          matches |-> matches,
          threatScore |-> calculateChunkThreatScore(matches),
          hasThreats |-> Len(matches) > 0 ]

\* detectThreatsInSession; translationMap.get(chunkId) is "" when the map has
\* no entry for the chunk
RECURSIVE detectThreatsInSession(_, _)
detectThreatsInSession(transcriptChunks, translationMap) ==
    IF transcriptChunks = <<>> THEN <<>>
    ELSE LET chunk == Head(transcriptChunks)
             translatedText == IF chunk.chunkId \in DOMAIN translationMap
                               THEN translationMap[chunk.chunkId] ELSE ""
         IN  <<detectThreatsInChunk(chunk, chunk.text, translatedText)>>
             \o detectThreatsInSession(Tail(transcriptChunks), translationMap)

\* the inner loop of aggregateSessionMatches putting each match in front
RECURSIVE aggregateMatchesPrepending(_, _)
aggregateMatchesPrepending(acc, matches) ==
    IF matches = <<>> THEN acc
    ELSE LET match == Head(matches)
         IN  aggregateMatchesPrepending(
                 [acc EXCEPT
                     !.categoryBreakdown[match.category] = @ + 1,
                     !.uniqueWords = @ \cup {toLowerCase(match.word)},
                     !.allMatches = <<match>> \o @],
                 Tail(matches))

\* the inner loop of aggregateSessionMatches leaving the urgency matches
\* uncounted
RECURSIVE aggregateMatchesDroppingUrgency(_, _)
aggregateMatchesDroppingUrgency(acc, matches) ==
    IF matches = <<>> THEN acc
    ELSE LET match == Head(matches)
         IN  aggregateMatchesDroppingUrgency(
                 [acc EXCEPT
                     !.categoryBreakdown[match.category] =
                         IF match.category = "urgency" THEN @ ELSE @ + 1,
                     !.uniqueWords = @ \cup {toLowerCase(match.word)},
                     !.allMatches = Append(@, match)],
                 Tail(matches))

\* the inner loop of aggregateSessionMatches over one analysis' matches
RECURSIVE aggregateMatches(_, _)
aggregateMatches(acc, matches) ==
    IF matches = <<>> THEN acc
    ELSE LET match == Head(matches)
         IN  aggregateMatches(
                 [acc EXCEPT
                     !.categoryBreakdown[match.category] = @ + 1,
                     !.uniqueWords = @ \cup {toLowerCase(match.word)},
                     !.allMatches = Append(@, match)],
                 Tail(matches))

\* the outer loop of aggregateSessionMatches leaving the loop at the first
\* analysis without threats
RECURSIVE aggregateChunksUntilClean(_, _)
aggregateChunksUntilClean(acc, chunkAnalyses) ==
    IF chunkAnalyses = <<>> THEN acc
    ELSE LET analysis == Head(chunkAnalyses)
         IN  IF ~analysis.hasThreats THEN acc
             ELSE aggregateChunksUntilClean(
                      aggregateMatches([acc EXCEPT !.chunksInvolved = @ + 1],
                                       analysis.matches),
                      Tail(chunkAnalyses))

\* the outer loop of aggregateSessionMatches over the chunk analyses
RECURSIVE aggregateChunks(_, _)
aggregateChunks(acc, chunkAnalyses) ==
    IF chunkAnalyses = <<>> THEN acc
    ELSE LET analysis == Head(chunkAnalyses)
             counted == IF analysis.hasThreats
                        THEN [acc EXCEPT !.chunksInvolved = @ + 1]
                        ELSE acc
         IN  aggregateChunks(aggregateMatches(counted, analysis.matches),
                             Tail(chunkAnalyses))

\* aggregateSessionMatches counting on from the counts of the analysis stored
\* last instead of from zero
aggregateSessionMatchesStale(chunkAnalyses) ==
    LET start == [ categoryBreakdown |->
                       IF threatAnalysis = <<>>
                       THEN [ violent_actions |-> 0, weapons |-> 0, events |-> 0,
                              targets |-> 0, urgency |-> 0 ]
                       ELSE threatAnalysis[Len(threatAnalysis)].categoryBreakdown,
                   uniqueWords |-> {},
                   chunksInvolved |-> 0,
                   allMatches |-> <<>> ]
        done == aggregateChunks(start, chunkAnalyses)
    IN  [ totalMatches |-> Len(done.allMatches),
          categoryBreakdown |-> done.categoryBreakdown,
          uniqueWords |-> done.uniqueWords,
          chunksInvolved |-> done.chunksInvolved,
          allMatches |-> done.allMatches ]

\* aggregateSessionMatches
aggregateSessionMatches(chunkAnalyses) ==
    LET start == [ categoryBreakdown |-> [ violent_actions |-> 0, weapons |-> 0,
                                           events |-> 0, targets |-> 0,
                                           urgency |-> 0 ],
                   uniqueWords |-> {},
                   chunksInvolved |-> 0,
                   allMatches |-> <<>> ]
        done == aggregateChunks(start, chunkAnalyses)
    IN  [ totalMatches |-> Len(done.allMatches),
          categoryBreakdown |-> done.categoryBreakdown,
          uniqueWords |-> done.uniqueWords,
          chunksInvolved |-> done.chunksInvolved,
          allMatches |-> done.allMatches ]

(***************************************************************************)
(* Explanation generator (src/services/threatExplainabilityService.ts).    *)
(***************************************************************************)
\* formatCategory
formatCategory(category) ==
    LET formatted == [ violent_actions |-> "Violent action",
                       weapons |-> "Weapon",
                       events |-> "Event",
                       targets |-> "Target",
                       urgency |-> "Urgency" ]
    IN  IF category \in DOMAIN formatted THEN formatted[category] ELSE category

\* generateSummary
generateSummary(severity, score, matchCount, chunksInvolved) ==
    IF severity = "SAFE"
    THEN "Session classified as SAFE. No significant threat indicators detected."
    ELSE LET severityText == IF severity = "HIGH_RISK" THEN "HIGH RISK"
                             ELSE "SUSPICIOUS"
             plural == IF matchCount = 1 THEN "keyword" ELSE "keywords"
             chunkText == IF chunksInvolved = 1 THEN "segment" ELSE "segments"
         IN  "Session flagged as " \o severityText \o " (score: "
             \o ToString(score) \o ") due to " \o ToString(matchCount)
             \o " threat-related " \o plural \o " detected across "
             \o ToString(chunksInvolved) \o " audio " \o chunkText \o "."

\* the keywordCounts map after the matches were counted: its entries in
\* insertion order
RECURSIVE countKeywords(_, _)
countKeywords(keywordCounts, matches) ==
    IF matches = <<>> THEN keywordCounts
    ELSE LET match == Head(matches)
             key == toLowerCase(match.word)
             at == {i \in 1..Len(keywordCounts) : keywordCounts[i].word = key}
         IN  IF at # {}
             THEN countKeywords(
                      [i \in 1..Len(keywordCounts) |->
                          IF i \in at
                          THEN [keywordCounts[i] EXCEPT !.count = @ + 1]
                          ELSE keywordCounts[i]],
                      Tail(matches))
             ELSE countKeywords(
                      Append(keywordCounts,
                             [ word |-> key,
                               category |-> formatCategory(match.category),
                               count |-> 1 ]),
                      Tail(matches))

\* insertion of an entry in front of the entries whose count is not greater,
\* as an unstable sort may place it
RECURSIVE insertByCountUnstable(_, _)
insertByCountUnstable(sorted, entry) ==
    IF sorted = <<>> THEN <<entry>>
    ELSE IF Head(sorted).count > entry.count
         THEN <<Head(sorted)>> \o insertByCountUnstable(Tail(sorted), entry)
         ELSE <<entry>> \o sorted

\* insertion of an entry behind every entry whose count is not smaller
RECURSIVE insertByCount(_, _)
insertByCount(sorted, entry) ==
    IF sorted = <<>> THEN <<entry>>
    ELSE IF Head(sorted).count >= entry.count
         THEN <<Head(sorted)>> \o insertByCount(Tail(sorted), entry)
         ELSE <<entry>> \o sorted

\* Array.prototype.sort((a, b) => b.count - a.count), a stable sort
RECURSIVE sortByCount(_, _)
sortByCount(sorted, entries) ==
    IF entries = <<>> THEN sorted
    ELSE sortByCount(insertByCount(sorted, Head(entries)), Tail(entries))

\* generateThreatExplanation: the summary and the triggered keywords
generateThreatExplanation(severity, score, matches, categoryBreakdown, chunksInvolved) ==
    [ summary |-> generateSummary(severity, score, Len(matches), chunksInvolved),
      triggeredKeywords |-> sortByCount(<<>>, countKeywords(<<>>, matches)) ]

\* the arguments of generateThreatExplanation as a call that takes its
\* context examples with matches.splice leaves them
generateThreatExplanationSplicing(matches, categoryBreakdown) ==
    [ matches |-> SubSeq(matches, 4, Len(matches)),
      categoryBreakdown |-> categoryBreakdown ]

\* the array matches and the object categoryBreakdown as a call of
\* generateThreatExplanation leaves them: it reads them (forEach, filter,
\* for-of, Object.entries) and assigns to neither; severity, score and
\* chunksInvolved are passed by value
generateThreatExplanationLeaves(matches, categoryBreakdown) ==
    [ matches |-> matches,
      categoryBreakdown |-> categoryBreakdown ]

(***************************************************************************)
(* SpecScore: calculateThreatScore on every bounded input.                 *)
(***************************************************************************)
\* words the uniqueWords argument is drawn from
UniqueWordPool == {"bomb", "now", "attack"}

ScoreInputs ==
    [ categoryBreakdown : [ThreatCategory -> 0..MaxCount],
      uniqueWords : SUBSET UniqueWordPool,
      chunksInvolved : 0..MaxChunksInvolved ]

\* the session identifiers analyzeSessionThreats is called with
Sessions == {"s1", "s2"}

\* the invocations of analyzeSessionThreats
Procs == {"p1", "p2"}

\* no run of analyzeSessionThreats for a session has succeeded; superseding
\* tells that the latest successful run came after one with another record
noRun == [record |-> NoResult, superseding |-> FALSE]

\* the locals of an invocation of analyzeSessionThreats not yet made
idleProc ==
    [ pc |-> "idle", sessionId |-> "", transcripts |-> <<>>,
      translationMap |-> <<>>, chunkAnalyses |-> <<>>, aggregated |-> NoResult,
      threatScore |-> NoResult, explanation |-> NoResult,
      analysisRecord |-> NoResult, error |-> "" ]

\* no call of calculateThreatScore, of detectThreatsInChunk or of
\* analyzeSessionThreats has been made
ScoreIdle == scoreArgs = NoResult /\ scoreResult = NoResult
ChunkIdle == chunkArgs = NoResult /\ chunkResult = NoResult
AggIdle == aggArgs = NoResult /\ aggResult = NoResult
\* no call of the storage service, no page and no Whisper service
AppIdle ==
    /\ storeCall = NoResult
    /\ page = NoResult
    /\ sessions = NoResult
    /\ whisper = NoResult

PipeIdle ==
    /\ transcripts = <<>>
    /\ translations = <<>>
    /\ threatAnalysis = <<>>
    /\ clock = 0
    /\ proc = [p \in Procs |-> idleProc]
    /\ latest = [s \in Sessions |-> noRun]

InitScore ==
    /\ AppIdle
    /\ scoreArgs \in ScoreInputs
    /\ scoreResult = NoResult
    /\ ChunkIdle
    /\ AggIdle
    /\ PipeIdle

\* one call of calculateThreatScore on the chosen input
CallCalculateThreatScore ==
    /\ scoreArgs # NoResult
    /\ scoreResult = NoResult
    /\ scoreResult' = calculateThreatScore(<<>>, scoreArgs.categoryBreakdown,
                                           scoreArgs.uniqueWords,
                                           scoreArgs.chunksInvolved)
    /\ UNCHANGED <<scoreArgs, chunkVars, aggVars, pipeVars, appVars>>

NextScore == CallCalculateThreatScore

SpecScore == InitScore /\ [][NextScore]_vars

ScoreCalled == scoreArgs # NoResult /\ scoreResult # NoResult

scoreTotal == SumOver(scoreArgs.categoryBreakdown, getThreatCategories)
scoreUnique == Cardinality(scoreArgs.uniqueWords)

\* C1: the score returned by calculateThreatScore equals the sum of the six
\* values of the returned breakdown; each category's value is count x weight
\* (weapons 3, violent_actions 2, events 2, targets 2, urgency 1) and
\* repetition_bonus holds the repetition bonus plus the spread bonus.
C1_ScoreIsSumOfBreakdown ==
    ScoreCalled =>
        LET b == scoreResult.breakdown
            cb == scoreArgs.categoryBreakdown
        IN  /\ scoreResult.score = b.violent_actions + b.weapons + b.events
                                   + b.targets + b.urgency + b.repetition_bonus
            /\ b.weapons = 3 * cb.weapons
            /\ b.violent_actions = 2 * cb.violent_actions
            /\ b.events = 2 * cb.events
            /\ b.targets = 2 * cb.targets
            /\ b.urgency = 1 * cb.urgency
            /\ b.repetition_bonus =
                  (IF scoreUnique > 0 /\ scoreTotal > scoreUnique
                   THEN (scoreTotal - scoreUnique) \div 2 ELSE 0)
                  + (IF scoreArgs.chunksInvolved > 2
                     THEN scoreArgs.chunksInvolved \div 2 ELSE 0)

\* a call with matches in every category, a repetition and a spread bonus
C1_Witness ==
    /\ ScoreCalled
    /\ \A c \in ThreatCategory : scoreArgs.categoryBreakdown[c] > 0
    /\ scoreUnique = 2
    /\ scoreArgs.chunksInvolved = 4
    /\ scoreResult.breakdown.repetition_bonus >= 3

\* C2: severity is decided by the score alone: 0..2 SAFE, 3..5 SUSPICIOUS,
\* 6 and more HIGH_RISK, without a gap between the bands.
C2_SeverityBands ==
    ScoreCalled =>
        /\ scoreResult.score >= 0
        /\ scoreResult.score \in 0..2 => scoreResult.severity = "SAFE"
        /\ scoreResult.score \in 3..5 => scoreResult.severity = "SUSPICIOUS"
        /\ scoreResult.score >= 6 => scoreResult.severity = "HIGH_RISK"
        /\ scoreResult.severity \in {"SAFE", "SUSPICIOUS", "HIGH_RISK"}

\* a call whose score is exactly the lower edge of the HIGH_RISK band
C2_Witness ==
    /\ ScoreCalled
    /\ scoreResult.score = 6
    /\ scoreResult.severity = "HIGH_RISK"

\* C3: the repetition bonus (the combined bonus less the spread bonus) is 0
\* when the total match count equals the number of unique words, and
\* floor((total - unique) / 2) when unique > 0 and total > unique.
C3_RepetitionBonus ==
    ScoreCalled =>
        LET rep == scoreResult.breakdown.repetition_bonus
                   - spreadBonus(scoreArgs.chunksInvolved)
        IN  /\ scoreTotal = scoreUnique => rep = 0
            /\ (scoreUnique > 0 /\ scoreTotal > scoreUnique) =>
                   rep = (scoreTotal - scoreUnique) \div 2

\* a call with three more matches than unique words: bonus 1
C3_Witness ==
    /\ ScoreCalled
    /\ scoreUnique = 2
    /\ scoreTotal = 5
    /\ scoreResult.breakdown.repetition_bonus
         - spreadBonus(scoreArgs.chunksInvolved) = 1

\* C4: the spread bonus (the combined bonus less the repetition bonus) is 0
\* when chunksInvolved <= 2 and floor(chunksInvolved / 2) otherwise.
C4_SpreadBonus ==
    ScoreCalled =>
        LET spread == scoreResult.breakdown.repetition_bonus
                      - repetitionFactor(scoreTotal, scoreUnique)
        IN  IF scoreArgs.chunksInvolved <= 2
            THEN spread = 0
            ELSE spread = scoreArgs.chunksInvolved \div 2

\* a call with five chunks involved: spread bonus 2
C4_Witness ==
    /\ ScoreCalled
    /\ scoreArgs.chunksInvolved = 5
    /\ scoreResult.breakdown.repetition_bonus
         - repetitionFactor(scoreTotal, scoreUnique) = 2

(***************************************************************************)
(* SpecChunk: detectThreatsInChunk on every bounded chunk and text.        *)
(***************************************************************************)
\* pieces of text the source texts and translations are put together from;
\* "u092c092e" is the Hindi weapons entry for bomb
FragmentPool == {"bomb", "Bomb!", "now", "attack", "bombs", "u092c092e"}

\* the texts made of at most n pieces joined by single spaces
TextsUpTo(n) ==
    { joinSpace(ws) : ws \in UNION { [1..k -> FragmentPool] : k \in 0..n } }

\* TranscriptChunk.language as given by the speech-to-text collaborator
LanguagePool == {"english", "English", "hindi", "Urdu", "KASHMIRI", "french"}

ChunkInputs ==
    [ chunk : [ chunkId : {"chunk-1"}, language : LanguagePool, startTime : {30} ],
      sourceText : TextsUpTo(MaxWords),
      translatedText : TextsUpTo(MaxTranslatedWords) ]

InitChunk ==
    /\ AppIdle
    /\ chunkArgs \in ChunkInputs
    /\ chunkResult = NoResult
    /\ ScoreIdle
    /\ AggIdle
    /\ PipeIdle

\* one call of detectThreatsInChunk on the chosen input
CallDetectThreatsInChunk ==
    /\ chunkArgs # NoResult
    /\ chunkResult = NoResult
    /\ chunkResult' = detectThreatsInChunk(chunkArgs.chunk, chunkArgs.sourceText,
                                           chunkArgs.translatedText)
    /\ UNCHANGED <<chunkArgs, scoreVars, aggVars, pipeVars, appVars>>

NextChunk == CallDetectThreatsInChunk

SpecChunk == InitChunk /\ [][NextChunk]_vars

ChunkCalled == chunkArgs # NoResult /\ chunkResult # NoResult

\* the number of matches of a chunk analysis that carry the category
CountCategory(matches, category) ==
    Cardinality({i \in 1..Len(matches) : matches[i].category = category})

\* C8: the chunk score returned by detectThreatsInChunk is the sum over its
\* matches of the category weight (weapons 3, violent_actions 2, events 2,
\* targets 2, urgency 1), and hasThreats is true exactly when the match list
\* is non-empty (no match: hasThreats false and score 0).
C8_ChunkScore ==
    ChunkCalled =>
        LET ms == chunkResult.matches
        IN  /\ chunkResult.threatScore =
                   3 * CountCategory(ms, "weapons")
                   + 2 * CountCategory(ms, "violent_actions")
                   + 2 * CountCategory(ms, "events")
                   + 2 * CountCategory(ms, "targets")
                   + 1 * CountCategory(ms, "urgency")
            /\ chunkResult.hasThreats = (ms # <<>>)
            /\ ms = <<>> => (~chunkResult.hasThreats /\ chunkResult.threatScore = 0)
            /\ \A i \in 1..Len(ms) : ms[i].category \in ThreatCategory

\* a chunk with a weapon and an urgency word in the source text and a word of
\* two categories in the translation
C8_Witness ==
    /\ ChunkCalled
    /\ chunkArgs.sourceText = "Bomb! now"
    /\ chunkArgs.chunk.language = "french"
    /\ chunkArgs.translatedText = "attack"
    /\ Len(chunkResult.matches) = 4
    /\ chunkResult.threatScore = 8

\* the matches of a list that carry the language tag of the translation, or
\* those that do not
TaggedMatches(matches, translated) ==
    SelectSeq(matches, LAMBDA m : (m.language = TranslatedTag) = translated)

\* the pairs of a token position and a category, in the order the matcher
\* visits them, for which the lowercased, trimmed token equals the
\* lowercased, trimmed form of an entry of the category's list
ExactHits(text, language) ==
    LET tokens == tokenizeText(text)
        dictionary == getThreatDictionary(language)
        width == Len(getThreatCategories)
        visit == [k \in 1..(Len(tokens) * width) |->
                     [ index |-> ((k - 1) \div width) + 1,
                       category |-> getThreatCategories[((k - 1) % width) + 1] ]]
    IN  SelectSeq(visit, LAMBDA v :
            \E e \in 1..Len(dictionary[v.category]) :
                trimEnd(trimStart(toLowerCase(tokens[v.index])))
                    = normalizeEntry(dictionary[v.category][e]))

\* the matches are those of the exact hits of the text, each with an entry of
\* the category's list as its word
MatchesAreExactHits(found, text, language) ==
    LET tokens == tokenizeText(text)
        dictionary == getThreatDictionary(language)
        hits == ExactHits(text, language)
    IN  /\ Len(found) = Len(hits)
        /\ \A j \in 1..Len(hits) :
               LET entries == dictionary[hits[j].category]
                   same == {e \in 1..Len(entries) :
                               normalizeEntry(entries[e])
                                   = toLowerCase(tokens[hits[j].index])}
               IN  /\ found[j].category = hits[j].category
                   /\ same # {}
                   /\ found[j].word = entries[CHOOSE e \in same : \A f \in same : e <= f]
                   /\ found[j].context = getContext(tokens, hits[j].index)

\* C19: matchKeywords emits a match for a token and a category exactly when
\* the lowercased, trimmed token equals a lowercased, trimmed entry of that
\* category's list, one match per such pair in token order (a token that only
\* contains or extends an entry gives none), and the word of the match is the
\* entry as the dictionary spells it, not the token of the text.
C19_ExactWordMatching ==
    ChunkCalled =>
        /\ MatchesAreExactHits(TaggedMatches(chunkResult.matches, FALSE),
                               chunkArgs.sourceText, chunkArgs.chunk.language)
        /\ TaggedMatches(chunkResult.matches, TRUE) # <<>> =>
               MatchesAreExactHits(TaggedMatches(chunkResult.matches, TRUE),
                                   chunkArgs.translatedText, "english")

\* the text "Bomb! bombs" has been matched: the token Bomb gives the entry
\* bomb, the token bombs gives nothing
C19_Witness ==
    /\ ChunkCalled
    /\ chunkArgs.sourceText = "Bomb! bombs"
    /\ chunkArgs.chunk.language = "english"
    /\ Len(chunkResult.matches) = 1
    /\ chunkResult.matches[1].word = "bomb"
    /\ chunkResult.matches[1].category = "weapons"

\* the dictionary each language identifier of the pool stands for: its own in
\* any letter case, the English one for an identifier of no known language
DictionaryOfIdentifier ==
    [ english |-> english_dictionary,
      English |-> english_dictionary,
      hindi |-> hindi_dictionary,
      Urdu |-> urdu_dictionary,
      KASHMIRI |-> kashmiri_dictionary,
      french |-> english_dictionary ]

PageProcs == {"p1"}

\* the transcript records the speech-to-text collaborator has stored (session
\* s2 was never transcribed); "u092c092e" is the Hindi weapons entry for bomb
TranscriptSamples ==
    { [ sessionId |-> "s1", chunkId |-> "chunk-0", text |-> "Bomb, bomb now!",
        language |-> "english", startTime |-> 0 ],
      [ sessionId |-> "s1", chunkId |-> "chunk-1", text |-> "u092c092e",
        language |-> "hindi", startTime |-> 30 ],
      [ sessionId |-> "s1", chunkId |-> "chunk-2", text |-> "Attack the camp",
        language |-> "French", startTime |-> 60 ] }

\* the translation records the translation collaborator has stored
TranslationSamples ==
    { [ sessionId |-> "s1", chunkId |-> "chunk-1", translatedText |-> "bomb attack" ],
      [ sessionId |-> "s1", chunkId |-> "chunk-0", translatedText |-> "strike" ] }

\* the sequences of at most n elements of S
SeqsUpTo(S, n) == UNION { [1..k -> S] : k \in 0..n }

\* the stores as transcription and translation left them (records in
\* primary-key order), no analysis stored, no invocation made
Init ==
    /\ AppIdle
    /\ ScoreIdle
    /\ ChunkIdle
    /\ AggIdle
    /\ transcripts \in SeqsUpTo(TranscriptSamples, MaxTranscripts)
    /\ translations \in SeqsUpTo(TranslationSamples, MaxTranslations)
    /\ threatAnalysis = <<>>
    /\ clock = 0
    /\ proc = [p \in Procs |-> idleProc]
    /\ latest = [s \in Sessions |-> noRun]

\* index.getAll(sessionId) on a store
getAllBySession(store, sessionId) ==
    SelectSeq(store, LAMBDA r : r.sessionId = sessionId)

\* getTranscriptsFromDB: the records of the session as TranscriptChunk values
getTranscriptsFromDB(sessionId) ==
    LET records == getAllBySession(transcripts, sessionId)
    IN  [i \in 1..Len(records) |->
            [ chunkId |-> records[i].chunkId,
              text |-> records[i].text,
              language |-> records[i].language,
              startTime |-> records[i].startTime ]]

\* getTranslationsFromDB
getTranslationsFromDB(sessionId) ==
    LET records == getAllBySession(translations, sessionId)
    IN  [i \in 1..Len(records) |->
            [ chunkId |-> records[i].chunkId,
              translatedText |-> records[i].translatedText ]]

\* translations.forEach(t => translationMap.set(t.chunkId, t.translatedText))
translationMapOf(list) ==
    [c \in {list[i].chunkId : i \in 1..Len(list)} |->
        LET at == {i \in 1..Len(list) : list[i].chunkId = c}
        IN  list[CHOOSE i \in at : \A j \in at : j <= i].translatedText]

\* the page's isAnalyzingThreats flag: an invocation is in flight
isAnalyzingThreats ==
    \E q \in Procs : proc[q].pc \notin {"idle", "done", "failed"}

\* analyzeSessionThreats is called for a session by handleAnalyzeThreats,
\* whose button is disabled while an analysis runs
Call(p, s) ==
    /\ proc[p].pc \in {"idle", "done", "failed"}
    /\ ~isAnalyzingThreats
    /\ proc' = [proc EXCEPT ![p] = [idleProc EXCEPT !.pc = "getTranscripts",
                                                   !.sessionId = s]]
    /\ UNCHANGED <<transcripts, translations, threatAnalysis, clock, latest, scoreVars, chunkVars, aggVars, appVars>>

\* await getTranscriptsFromDB resolves, without the test for an empty list
GetTranscriptsUnchecked(p) ==
    /\ proc[p].pc = "getTranscripts"
    /\ proc' = [proc EXCEPT ![p].pc = "getTranslations",
                            ![p].transcripts = getTranscriptsFromDB(proc[p].sessionId)]
    /\ UNCHANGED <<transcripts, translations, threatAnalysis, clock, latest, scoreVars, chunkVars, aggVars, appVars>>

\* await getTranscriptsFromDB resolves and the run goes on to the chunk
\* analysis without fetching the translations
GetTranscriptsSkippingTranslations(p) ==
    /\ proc[p].pc = "getTranscripts"
    /\ LET found == getTranscriptsFromDB(proc[p].sessionId)
       IN  proc' = [proc EXCEPT ![p] =
                IF Len(found) = 0
                THEN [@ EXCEPT !.pc = "failed",
                               !.error = "No transcripts found for this session"]
                ELSE [@ EXCEPT !.pc = "detect", !.transcripts = found]]
    /\ UNCHANGED <<transcripts, translations, threatAnalysis, clock, latest, scoreVars, chunkVars, aggVars, appVars>>

\* await getTranscriptsFromDB resolves; no transcript is the not-found error
GetTranscripts(p) ==
    /\ proc[p].pc = "getTranscripts"
    /\ LET found == getTranscriptsFromDB(proc[p].sessionId)
       IN  proc' = [proc EXCEPT ![p] =
                IF Len(found) = 0
                THEN [@ EXCEPT !.pc = "failed",
                               !.error = "No transcripts found for this session"]
                ELSE [@ EXCEPT !.pc = "getTranslations", !.transcripts = found]]
    /\ UNCHANGED <<transcripts, translations, threatAnalysis, clock, latest, scoreVars, chunkVars, aggVars, appVars>>

\* await getTranscriptsFromDB rejects (request.onerror)
GetTranscriptsFails(p) ==
    /\ proc[p].pc = "getTranscripts"
    /\ proc' = [proc EXCEPT ![p].pc = "failed",
                            ![p].error = "Failed to get transcripts"]
    /\ UNCHANGED <<transcripts, translations, threatAnalysis, clock, latest, scoreVars, chunkVars, aggVars, appVars>>

\* await getTranslationsFromDB resolves into a translation map held at module
\* level, one map for all invocations
GetTranslationsSharedMap(p) ==
    /\ proc[p].pc = "getTranslations"
    /\ LET map == translationMapOf(getTranslationsFromDB(proc[p].sessionId))
       IN  proc' = [q \in Procs |->
                       IF q = p
                       THEN [proc[q] EXCEPT !.pc = "detect", !.translationMap = map]
                       ELSE IF proc[q].pc = "idle" THEN proc[q]
                       ELSE [proc[q] EXCEPT !.translationMap = map]]
    /\ UNCHANGED <<transcripts, translations, threatAnalysis, clock, latest, scoreVars, chunkVars, aggVars, appVars>>

\* await getTranslationsFromDB resolves and the translation map is built
GetTranslations(p) ==
    /\ proc[p].pc = "getTranslations"
    /\ proc' = [proc EXCEPT ![p].pc = "detect",
                            ![p].translationMap =
                                translationMapOf(getTranslationsFromDB(proc[p].sessionId))]
    /\ UNCHANGED <<transcripts, translations, threatAnalysis, clock, latest, scoreVars, chunkVars, aggVars, appVars>>

\* await getTranslationsFromDB rejects (request.onerror)
GetTranslationsFails(p) ==
    /\ proc[p].pc = "getTranslations"
    /\ proc' = [proc EXCEPT ![p].pc = "failed",
                            ![p].error = "Failed to get translations"]
    /\ UNCHANGED <<transcripts, translations, threatAnalysis, clock, latest, scoreVars, chunkVars, aggVars, appVars>>

\* await detectThreatsInSession
Detect(p) ==
    /\ proc[p].pc = "detect"
    /\ proc' = [proc EXCEPT ![p].pc = "assemble",
                            ![p].chunkAnalyses =
                                detectThreatsInSession(proc[p].transcripts,
                                                       proc[p].translationMap)]
    /\ UNCHANGED <<transcripts, translations, threatAnalysis, clock, latest, scoreVars, chunkVars, aggVars, appVars>>

\* the ThreatAnalysisRecord carrying the scorer's weighted category terms
analysisRecordOfWeighted(sessionId, threatScore, explanation, aggregated, now) ==
    [ analysisId |-> "analysis-" \o sessionId \o "-" \o ToString(now),
      sessionId |-> sessionId,
      threatScore |-> threatScore.score,
      severity |-> threatScore.severity,
      triggeredKeywords |-> explanation.triggeredKeywords,
      categoryBreakdown |-> [c \in ThreatCategory |-> threatScore.breakdown[c]],
      explanationText |-> explanation.summary,
      chunksInvolved |-> aggregated.chunksInvolved,
      createdAt |-> now ]

\* the ThreatAnalysisRecord built by analyzeSessionThreats
analysisRecordOf(sessionId, threatScore, explanation, aggregated, now) ==
    [ analysisId |-> "analysis-" \o sessionId \o "-" \o ToString(now),
      sessionId |-> sessionId,
      threatScore |-> threatScore.score,
      severity |-> threatScore.severity,
      triggeredKeywords |-> explanation.triggeredKeywords,
      categoryBreakdown |-> aggregated.categoryBreakdown,
      explanationText |-> explanation.summary,
      chunksInvolved |-> aggregated.chunksInvolved,
      createdAt |-> now ]

\* aggregation, scoring, explanation and the assembly of the record, up to
\* the call of storeThreatAnalysis; now is the value Date.now() has by then
Assemble(p, now) ==
    /\ proc[p].pc = "assemble"
    /\ now >= clock
    /\ clock' = now
    /\ LET aggregated == aggregateSessionMatches(proc[p].chunkAnalyses)
           threatScore == calculateThreatScore(proc[p].chunkAnalyses,
                                               aggregated.categoryBreakdown,
                                               aggregated.uniqueWords,
                                               aggregated.chunksInvolved)
           explanation == generateThreatExplanation(threatScore.severity,
                                                    threatScore.score,
                                                    aggregated.allMatches,
                                                    aggregated.categoryBreakdown,
                                                    aggregated.chunksInvolved)
           left == generateThreatExplanationLeaves(aggregated.allMatches,
                                                   aggregated.categoryBreakdown)
           explained == [aggregated EXCEPT
                            !.allMatches = left.matches,
                            !.categoryBreakdown = left.categoryBreakdown]
       IN  proc' = [proc EXCEPT
               ![p].pc = "store",
               ![p].aggregated = explained,
               ![p].threatScore = threatScore,
               ![p].explanation = explanation,
               ![p].analysisRecord = analysisRecordOf(proc[p].sessionId, threatScore,
                                                      explanation, explained, now)]
    /\ UNCHANGED <<transcripts, translations, threatAnalysis, latest, scoreVars, chunkVars, aggVars, appVars>>

\* the place of a session identifier in the order of the keys
sessionRank(s) == IF s = "s1" THEN 1 ELSE 2

\* the key of a record of the store 'threatAnalysis'.  The schema of the
\* store is not part of the sources at hand; records are persisted keyed by
\* session identifier.
threatAnalysisKey(r) == r.sessionId

\* the order of the keys of two records of the store 'threatAnalysis'
threatAnalysisKeyBefore(a, b) ==
    sessionRank(threatAnalysisKey(a)) < sessionRank(threatAnalysisKey(b))

\* store.add(analysis): a record whose key is taken is not stored
addThreatAnalysis(store, analysis) ==
    IF \E i \in 1..Len(store) :
           threatAnalysisKey(store[i]) = threatAnalysisKey(analysis)
    THEN store
    ELSE LET before == SelectSeq(store, LAMBDA r : threatAnalysisKeyBefore(r, analysis))
             after == SelectSeq(store, LAMBDA r : ~threatAnalysisKeyBefore(r, analysis))
         IN  before \o <<analysis>> \o after

\* store.put(analysis) on the store 'threatAnalysis': the record replaces the
\* one stored under its key, or is added in key order
putThreatAnalysis(store, analysis) ==
    LET others == SelectSeq(store, LAMBDA r :
                      threatAnalysisKey(r) # threatAnalysisKey(analysis))
        before == SelectSeq(others, LAMBDA r : threatAnalysisKeyBefore(r, analysis))
        after == SelectSeq(others, LAMBDA r : ~threatAnalysisKeyBefore(r, analysis))
    IN  before \o <<analysis>> \o after

\* getThreatAnalysisBySession: index.get(sessionId) gives the first record of
\* the session in key order, request.result || null
getThreatAnalysisBySession(store, sessionId) ==
    LET found == getAllBySession(store, sessionId)
    IN  IF found = <<>> THEN NoResult ELSE found[1]

\* await storeThreatAnalysis resolves and the record is returned
Store(p) ==
    /\ proc[p].pc = "store"
    /\ threatAnalysis' = putThreatAnalysis(threatAnalysis, proc[p].analysisRecord)
    /\ proc' = [proc EXCEPT ![p].pc = "done"]
    /\ latest' = [latest EXCEPT ![proc[p].sessionId] =
                      [ record |-> proc[p].analysisRecord,
                        superseding |->
                            \/ @.superseding
                            \/ /\ @.record # NoResult
                               /\ @.record.analysisId # proc[p].analysisRecord.analysisId ]]
    /\ UNCHANGED <<transcripts, translations, clock, scoreVars, chunkVars, aggVars, appVars>>

\* await storeThreatAnalysis rejects (request.onerror)
StoreFails(p) ==
    /\ proc[p].pc = "store"
    /\ proc' = [proc EXCEPT ![p].pc = "failed",
                            ![p].error = "Failed to store threat analysis"]
    /\ UNCHANGED <<transcripts, translations, threatAnalysis, clock, latest, scoreVars, chunkVars, aggVars, appVars>>

Next ==
    \/ \E p \in PageProcs, s \in Sessions : Call(p, s)
    \/ \E p \in PageProcs : GetTranscripts(p)
    \/ \E p \in PageProcs : GetTranscriptsFails(p)
    \/ \E p \in PageProcs : GetTranslations(p)
    \/ \E p \in PageProcs : GetTranslationsFails(p)
    \/ \E p \in PageProcs : Detect(p)
    \/ \E p \in PageProcs, now \in 0..MaxClock : Assemble(p, now)
    \/ \E p \in PageProcs : Store(p)
    \/ \E p \in PageProcs : StoreFails(p)

Spec == Init /\ [][Next]_vars

(***************************************************************************)
(* Properties of analyzeSessionThreats.                                    *)
(***************************************************************************)
NotFoundError == "No transcripts found for this session"

\* the invocations whose record has been assembled
Assembled == {p \in Procs : proc[p].pc \in {"store", "done"}}

\* the records returned by an invocation or held by the store
Records ==
    {proc[p].analysisRecord : p \in Assembled}
    \cup {threatAnalysis[i] : i \in 1..Len(threatAnalysis)}

\* the sum of the five values of a record's categoryBreakdown
BreakdownSum(r) ==
    r.categoryBreakdown.violent_actions + r.categoryBreakdown.weapons
    + r.categoryBreakdown.events + r.categoryBreakdown.targets
    + r.categoryBreakdown.urgency

\* C5 as stated: in every record returned or persisted by
\* analyzeSessionThreats the score equals the sum of the record's own
\* breakdown values.
C5_ScoreIsSumOfRecordBreakdown ==
    \A r \in Records : r.threatScore = BreakdownSum(r)

\* C5 as amended: the record's categoryBreakdown holds the unweighted match
\* counts, and the record's score is the weighted sum of these counts
\* (weapons 3, violent_actions 2, events 2, targets 2, urgency 1) plus the
\* repetition bonus and the spread bonus, all computable from the record:
\* total is the sum of its counts, unique the number of its triggeredKeywords.
C5_ScoreIsWeightedRecordBreakdown ==
    \A r \in Records :
        LET cb == r.categoryBreakdown
            total == BreakdownSum(r)
            unique == Len(r.triggeredKeywords)
        IN  r.threatScore =
                3 * cb.weapons + 2 * cb.violent_actions + 2 * cb.events
                + 2 * cb.targets + 1 * cb.urgency
                + (IF unique > 0 /\ total > unique
                   THEN (total - unique) \div 2 ELSE 0)
                + (IF r.chunksInvolved > 2 THEN r.chunksInvolved \div 2 ELSE 0)

\* a stored record with a repetition bonus and a spread bonus
C5_Witness ==
    \E i \in 1..Len(threatAnalysis) :
        LET r == threatAnalysis[i]
        IN  /\ r.chunksInvolved = 3
            /\ BreakdownSum(r) >= Len(r.triggeredKeywords) + 2
            /\ r.threatScore > BreakdownSum(r)

\* C6: every step of an invocation of analyzeSessionThreats on a session
\* without transcripts leaves the store 'threatAnalysis' unchanged and leaves
\* the invocation either waiting for the transcripts or failed, with the
\* not-found error unless the fetch itself was rejected; nothing is matched,
\* aggregated, scored, explained or assembled.
C6_EmptyTranscriptsNotFound ==
    [][\A p \in Procs :
          (/\ proc'[p] # proc[p]
           /\ proc'[p].pc # "idle"
           /\ getAllBySession(transcripts, proc'[p].sessionId) = <<>>) =>
              /\ threatAnalysis' = threatAnalysis
              /\ proc'[p].pc \in {"getTranscripts", "failed"}
              /\ proc'[p].pc = "failed" =>
                     proc'[p].error \in {NotFoundError, "Failed to get transcripts"}
              /\ proc'[p].chunkAnalyses = <<>>
              /\ proc'[p].aggregated = NoResult
              /\ proc'[p].threatScore = NoResult
              /\ proc'[p].explanation = NoResult
              /\ proc'[p].analysisRecord = NoResult]_vars

\* an invocation on the session without transcripts has failed with the
\* not-found error while the store holds the analysis of another session
C6_Witness ==
    \E p \in Procs :
        /\ proc[p].pc = "failed"
        /\ proc[p].error = NotFoundError
        /\ proc[p].sessionId = "s2"
        /\ Len(threatAnalysis) > 0

\* C7: with the transcripts and translations unchanged (Spec never changes
\* them), the record of a later run has the score, severity and
\* categoryBreakdown of every record an earlier run stored for the session.
C7_Idempotent ==
    \A p \in Assembled :
        \A i \in 1..Len(threatAnalysis) :
            threatAnalysis[i].sessionId = proc[p].sessionId =>
                /\ threatAnalysis[i].threatScore = proc[p].analysisRecord.threatScore
                /\ threatAnalysis[i].severity = proc[p].analysisRecord.severity
                /\ threatAnalysis[i].categoryBreakdown
                       = proc[p].analysisRecord.categoryBreakdown

\* a second run has assembled its record while the record of an earlier run
\* of the same session, with matches, is in the store
C7_Witness ==
    \E p \in Procs :
        /\ proc[p].pc = "store"
        /\ proc[p].analysisRecord.threatScore > 0
        /\ \E i \in 1..Len(threatAnalysis) :
               /\ threatAnalysis[i].sessionId = proc[p].sessionId
               /\ threatAnalysis[i].analysisId # proc[p].analysisRecord.analysisId

\* the lower-cased entries of all categories of a dictionary
LoweredEntries(dictionary) ==
    UNION { { toLowerCase(dictionary[c][i]) : i \in 1..Len(dictionary[c]) } :
            c \in ThreatCategory }

\* C9: every word of a record's triggeredKeywords comes from at least one
\* match, and for each match it comes from it is, case-insensitively, an
\* entry of the dictionary resolved for the language tag of that match.
C9_TriggeredKeywordsInDictionary ==
    \A p \in Assembled :
        LET ks == proc[p].analysisRecord.triggeredKeywords
            ms == proc[p].aggregated.allMatches
        IN  \A k \in 1..Len(ks) :
                LET from == {i \in 1..Len(ms) : toLowerCase(ms[i].word) = ks[k].word}
                IN  /\ from # {}
                    /\ \A i \in from :
                           ks[k].word \in LoweredEntries(getThreatDictionary(ms[i].language))

\* a record with keywords from an English, a Hindi, an unknown-language and a
\* translated match
C9_Witness ==
    \E p \in Assembled :
        LET ms == proc[p].aggregated.allMatches
        IN  /\ Len(proc[p].analysisRecord.triggeredKeywords) >= 4
            /\ {"english", "hindi", "French", TranslatedTag}
                   \subseteq {ms[i].language : i \in 1..Len(ms)}

\* the match lists of the chunk analyses one after the other
RECURSIVE ConcatMatches(_)
ConcatMatches(chunkAnalyses) ==
    IF chunkAnalyses = <<>> THEN <<>>
    ELSE Head(chunkAnalyses).matches \o ConcatMatches(Tail(chunkAnalyses))

\* C10: there is one chunk analysis per segment, in segment order, each of its
\* matches (source or translated) carries the chunk's identifier, and the
\* aggregate's allMatches is the concatenation of the analyses' match lists.
C10_MatchesCarryChunkAndConcatenate ==
    \A p \in Procs :
        /\ proc[p].pc \in {"assemble", "store", "done"} =>
               LET ca == proc[p].chunkAnalyses
               IN  /\ Len(ca) = Len(proc[p].transcripts)
                   /\ \A i \in 1..Len(ca) :
                          /\ ca[i].chunkId = proc[p].transcripts[i].chunkId
                          /\ \A j \in 1..Len(ca[i].matches) :
                                 ca[i].matches[j].chunkId = ca[i].chunkId
        /\ proc[p].pc \in {"store", "done"} =>
               /\ proc[p].aggregated.allMatches = ConcatMatches(proc[p].chunkAnalyses)
               /\ proc[p].aggregated.totalMatches
                      = Len(ConcatMatches(proc[p].chunkAnalyses))

\* three segments with different identifiers, two of them with several
\* matches, among them translated ones
C10_Witness ==
    \E p \in Assembled :
        LET ca == proc[p].chunkAnalyses
        IN  /\ Len(ca) = 3
            /\ ca[1].chunkId = "chunk-1"
            /\ ca[2].chunkId = "chunk-0"
            /\ Len(ca[1].matches) >= 3
            /\ Len(ca[2].matches) >= 3
            /\ \E j \in 1..Len(ca[1].matches) : ca[1].matches[j].language = TranslatedTag
            /\ Len(proc[p].aggregated.allMatches) >= 6

\* C11: in every aggregate the per-category counts are over exactly the five
\* categories, each count is the number of matches of that category, the
\* counts sum to totalMatches, which is the length of allMatches, and the
\* scorer's breakdown has a term for each of the five categories (and the
\* bonus term), the term of a category with matches being positive.
C11_NoCategoryDropped ==
    \A p \in Assembled :
        LET agg == proc[p].aggregated
            breakdown == proc[p].threatScore.breakdown
        IN  /\ DOMAIN agg.categoryBreakdown = ThreatCategory
            /\ ThreatCategory = {getThreatCategories[i] : i \in 1..Len(getThreatCategories)}
            /\ \A c \in ThreatCategory :
                   agg.categoryBreakdown[c] = CountCategory(agg.allMatches, c)
            /\ SumOver(agg.categoryBreakdown, getThreatCategories) = agg.totalMatches
            /\ agg.totalMatches = Len(agg.allMatches)
            /\ DOMAIN breakdown = ThreatCategory \cup {"repetition_bonus"}
            /\ \A c \in ThreatCategory :
                   (breakdown[c] > 0) = (CountCategory(agg.allMatches, c) > 0)

\* an aggregate with matches in at least four categories, urgency among them
C11_Witness ==
    \E p \in Assembled :
        LET cb == proc[p].aggregated.categoryBreakdown
        IN  /\ Cardinality({c \in ThreatCategory : cb[c] > 0}) >= 4
            /\ cb.urgency > 0

C14_ExplanationReadOnly ==
    \A p \in Assembled :
        LET before == aggregateSessionMatches(proc[p].chunkAnalyses)
            r == proc[p].analysisRecord
        IN  /\ proc[p].aggregated.allMatches = before.allMatches
            /\ proc[p].aggregated.categoryBreakdown = before.categoryBreakdown
            /\ proc[p].threatScore =
                   calculateThreatScore(proc[p].chunkAnalyses, before.categoryBreakdown,
                                        before.uniqueWords, before.chunksInvolved)
            /\ r.threatScore = proc[p].threatScore.score
            /\ r.severity = proc[p].threatScore.severity
            /\ r.categoryBreakdown = before.categoryBreakdown
            /\ r.explanationText =
                   generateSummary(r.severity, r.threatScore,
                                   Len(before.allMatches), r.chunksInvolved)

\* a record of a session flagged HIGH_RISK with more than three matches and
\* three triggered keywords
C14_Witness ==
    \E p \in Assembled :
        /\ Len(proc[p].aggregated.allMatches) > 3
        /\ Len(proc[p].analysisRecord.triggeredKeywords) >= 3
        /\ proc[p].analysisRecord.severity = "HIGH_RISK"
        /\ proc[p].analysisRecord.explanationText # ""

\* the position of the first match of a list whose lowercased word is the word
FirstSeen(matches, word) ==
    CHOOSE i \in 1..Len(matches) :
        /\ toLowerCase(matches[i].word) = word
        /\ \A j \in 1..(i - 1) : toLowerCase(matches[j].word) # word

\* C21: triggeredKeywords has exactly one entry for each distinct lowercased
\* word of the matches, its count is the number of matches with that word,
\* the entries are in descending order of count, and entries with equal
\* counts are in the order in which their words first occur in the matches.
C21_TriggeredKeywordsCountedAndSorted ==
    \A p \in Assembled :
        LET ks == proc[p].analysisRecord.triggeredKeywords
            ms == proc[p].aggregated.allMatches
        IN  /\ {ks[k].word : k \in 1..Len(ks)}
                   = {toLowerCase(ms[i].word) : i \in 1..Len(ms)}
            /\ \A k, l \in 1..Len(ks) : ks[k].word = ks[l].word => k = l
            /\ \A k \in 1..Len(ks) :
                   ks[k].count = Cardinality({i \in 1..Len(ms) :
                                                 toLowerCase(ms[i].word) = ks[k].word})
            /\ \A k, l \in 1..Len(ks) :
                   k < l =>
                       \/ ks[k].count > ks[l].count
                       \/ /\ ks[k].count = ks[l].count
                          /\ FirstSeen(ms, ks[k].word) < FirstSeen(ms, ks[l].word)

\* a record whose keywords have three different counts and two entries with
\* the same count, the sort having moved an entry forward
C21_Witness ==
    \E p \in Assembled :
        LET ks == proc[p].analysisRecord.triggeredKeywords
            ms == proc[p].aggregated.allMatches
        IN  /\ Len(ks) >= 4
            /\ \E k \in 1..(Len(ks) - 1) : ks[k].count = ks[k + 1].count
            /\ \E k, l \in 1..Len(ks) :
                   k < l /\ FirstSeen(ms, ks[k].word) > FirstSeen(ms, ks[l].word)
\* C23: in every record, each category with a nonzero count in
\* categoryBreakdown is represented in triggeredKeywords: at least one
\* keyword carries that category's label.
C23_EveryCountedCategoryHasKeyword ==
    \A r \in Records :
        \A c \in ThreatCategory :
            r.categoryBreakdown[c] > 0 =>
                \E k \in 1..Len(r.triggeredKeywords) :
                    r.triggeredKeywords[k].category = formatCategory(c)

(***************************************************************************)
(* SpecConc: two invocations of analyzeSessionThreats on distinct          *)
(* sessions, interleaved at their awaits.                                  *)
(***************************************************************************)
\* the steps a run of analyzeSessionThreats may take from one await to the
\* next
StepOrder ==
    { <<"idle", "getTranscripts">>, <<"done", "getTranscripts">>,
      <<"failed", "getTranscripts">>,
      <<"getTranscripts", "getTranslations">>, <<"getTranscripts", "failed">>,
      <<"getTranslations", "detect">>, <<"getTranslations", "failed">>,
      <<"detect", "assemble">>,
      <<"assemble", "store">>,
      <<"store", "done">>, <<"store", "failed">> }

\* C17: a run goes through transcript fetch, translation fetch, chunk
\* analysis, aggregation, scoring, explanation and persistence in this order:
\* the chunk analysis has the results of both fetches, the score is computed
\* from the aggregate and the explanation from the score, the store changes
\* only by the one put that ends a run whose explanation was generated, and a
\* failed fetch leaves the store as it was.
C17_StepOrder ==
    [][\A p \in Procs :
          LET a == proc[p]
              b == proc'[p]
          IN  /\ a # b => <<a.pc, b.pc>> \in StepOrder
              /\ b.pc \in {"detect", "assemble", "store", "done"} =>
                     /\ b.transcripts = getTranscriptsFromDB(b.sessionId)
                     /\ b.transcripts # <<>>
                     /\ b.translationMap =
                            translationMapOf(getTranslationsFromDB(b.sessionId))
              /\ b.pc \in {"idle", "getTranscripts", "getTranslations", "detect"} =>
                     /\ b.chunkAnalyses = <<>>
                     /\ b.aggregated = NoResult
              /\ b.pc \in {"store", "done"} =>
                     /\ b.chunkAnalyses =
                            detectThreatsInSession(b.transcripts, b.translationMap)
                     /\ b.threatScore =
                            calculateThreatScore(b.chunkAnalyses,
                                                 b.aggregated.categoryBreakdown,
                                                 b.aggregated.uniqueWords,
                                                 b.aggregated.chunksInvolved)
                     /\ b.explanation =
                            generateThreatExplanation(b.threatScore.severity,
                                                      b.threatScore.score,
                                                      b.aggregated.allMatches,
                                                      b.aggregated.categoryBreakdown,
                                                      b.aggregated.chunksInvolved)
              /\ (a # b /\ threatAnalysis' # threatAnalysis) =>
                     /\ a.pc = "store" /\ b.pc = "done"
                     /\ a.explanation # NoResult
                     /\ threatAnalysis' = putThreatAnalysis(threatAnalysis, a.analysisRecord)
              /\ (a # b /\ ~(a.pc = "store" /\ b.pc = "done")) =>
                     threatAnalysis' = threatAnalysis
              /\ (b.pc = "failed"
                  /\ b.error \in {"Failed to get transcripts", "Failed to get translations",
                                  NotFoundError}) =>
                     /\ threatAnalysis' = threatAnalysis
                     /\ b.analysisRecord = NoResult]_vars

\* a run of a session with translations has stored its record; a later
\* run's fetch of the translations has failed
C17_Witness ==
    \E p \in Procs :
        /\ proc[p].pc = "failed"
        /\ proc[p].error = "Failed to get translations"
        /\ latest[proc[p].sessionId].record # NoResult
        /\ threatAnalysis = <<latest[proc[p].sessionId].record>>
        /\ getTranslationsFromDB(proc[p].sessionId) # <<>>
        /\ latest[proc[p].sessionId].record.threatScore > 0

\* C18: the matches of a segment's analysis are the matches of its text under
\* the segment's language, followed, exactly when the translation map holds a
\* non-empty translation for the segment and the segment's language is not
\* 'english', by the matches of the translation under the English dictionary,
\* which carry the tag 'english (translated)', different from the segment's
\* language; a segment without translation has its source matches only; and
\* the category totals count the source and the translated matches alike.
C18_TranslationMatching ==
    \A p \in Procs :
        /\ proc[p].pc \in {"assemble", "store", "done"} =>
               \A i \in 1..Len(proc[p].transcripts) :
                   LET chunk == proc[p].transcripts[i]
                       found == proc[p].chunkAnalyses[i].matches
                       map == proc[p].translationMap
                       source == matchKeywords(chunk.text, chunk.language)
                       translated ==
                           IF /\ chunk.chunkId \in DOMAIN map
                              /\ map[chunk.chunkId] # ""
                              /\ chunk.language # "english"
                           THEN matchKeywords(map[chunk.chunkId], "english")
                           ELSE <<>>
                   IN  /\ Len(found) = Len(source) + Len(translated)
                       /\ \A j \in 1..Len(source) :
                              found[j] = [source[j] EXCEPT
                                             !.chunkId = chunk.chunkId,
                                             !.timestamp = chunk.startTime]
                       /\ \A j \in 1..Len(source) : found[j].language = chunk.language
                       /\ \A j \in 1..Len(translated) :
                              found[Len(source) + j] =
                                  [translated[j] EXCEPT
                                      !.chunkId = chunk.chunkId,
                                      !.timestamp = chunk.startTime,
                                      !.language = TranslatedTag]
                       /\ TranslatedTag # chunk.language
        /\ proc[p].pc \in {"store", "done"} =>
               \A c \in ThreatCategory :
                   proc[p].aggregated.categoryBreakdown[c] =
                       CountCategory(TaggedMatches(proc[p].aggregated.allMatches, FALSE), c)
                       + CountCategory(TaggedMatches(proc[p].aggregated.allMatches, TRUE), c)

\* a run over a Hindi segment with a translation that yields matches and a
\* segment without translation that has source matches only
C18_Witness ==
    \E p \in Assembled :
        /\ \E i \in 1..Len(proc[p].transcripts) :
               /\ proc[p].transcripts[i].language = "hindi"
               /\ Len(TaggedMatches(proc[p].chunkAnalyses[i].matches, TRUE)) >= 2
               /\ Len(TaggedMatches(proc[p].chunkAnalyses[i].matches, FALSE)) = 1
        /\ \E i \in 1..Len(proc[p].transcripts) :
               /\ proc[p].transcripts[i].chunkId \notin DOMAIN proc[p].translationMap
               /\ proc[p].chunkAnalyses[i].matches # <<>>
        /\ \E c \in ThreatCategory :
               /\ CountCategory(TaggedMatches(proc[p].aggregated.allMatches, TRUE), c) > 0
               /\ CountCategory(TaggedMatches(proc[p].aggregated.allMatches, FALSE), c) > 0

\* the transcripts of two sessions whose chunks have the same identifiers
ConcTranscripts ==
    << [ sessionId |-> "s1", chunkId |-> "chunk-0", text |-> "Bomb, bomb now!",
         language |-> "english", startTime |-> 0 ],
       [ sessionId |-> "s2", chunkId |-> "chunk-0", text |-> "u092c092e",
         language |-> "hindi", startTime |-> 0 ],
       [ sessionId |-> "s1", chunkId |-> "chunk-1", text |-> "Attack the camp",
         language |-> "French", startTime |-> 30 ],
       [ sessionId |-> "s2", chunkId |-> "chunk-1", text |-> "u092c092e",
         language |-> "hindi", startTime |-> 30 ] >>

\* the translation records stored for the two sessions
ConcTranslationSamples ==
    { [ sessionId |-> "s2", chunkId |-> "chunk-0", translatedText |-> "bomb attack" ],
      [ sessionId |-> "s1", chunkId |-> "chunk-1", translatedText |-> "strike" ] }

InitConc ==
    /\ AppIdle
    /\ ScoreIdle
    /\ ChunkIdle
    /\ AggIdle
    /\ transcripts = ConcTranscripts
    /\ translations \in SeqsUpTo(ConcTranslationSamples, MaxTranslations)
    /\ threatAnalysis = <<>>
    /\ clock = 0
    /\ proc = [p \in Procs |-> idleProc]
    /\ latest = [s \in Sessions |-> noRun]

\* analyzeSessionThreats is called for a session no other invocation works on
Invoke(p, s) ==
    /\ proc[p].pc = "idle"
    /\ \A q \in Procs \ {p} : proc[q].sessionId # s
    /\ proc' = [proc EXCEPT ![p] = [idleProc EXCEPT !.pc = "getTranscripts",
                                                   !.sessionId = s]]
    /\ UNCHANGED <<transcripts, translations, threatAnalysis, clock, latest, scoreVars, chunkVars, aggVars, appVars>>

NextConc ==
    \/ \E p \in Procs, s \in Sessions : Invoke(p, s)
    \/ \E p \in Procs : GetTranscripts(p)
    \/ \E p \in Procs : GetTranscriptsFails(p)
    \/ \E p \in Procs : GetTranslations(p)
    \/ \E p \in Procs : GetTranslationsFails(p)
    \/ \E p \in Procs : Detect(p)
    \/ \E p \in Procs, now \in 0..MaxClock : Assemble(p, now)
    \/ \E p \in Procs : Store(p)
    \/ \E p \in Procs : StoreFails(p)

SpecConc == InitConc /\ [][NextConc]_vars

\* what analyzeSessionThreats computes for a session from the stores when it
\* runs alone
AloneAggregated(s) ==
    aggregateSessionMatches(
        detectThreatsInSession(getTranscriptsFromDB(s),
                               translationMapOf(getTranslationsFromDB(s))))

AloneScore(s) ==
    LET aggregated == AloneAggregated(s)
    IN  calculateThreatScore(<<>>, aggregated.categoryBreakdown,
                             aggregated.uniqueWords, aggregated.chunksInvolved)

AloneKeywords(s) ==
    LET aggregated == AloneAggregated(s)
        threatScore == AloneScore(s)
    IN  generateThreatExplanation(threatScore.severity, threatScore.score,
                                  aggregated.allMatches,
                                  aggregated.categoryBreakdown,
                                  aggregated.chunksInvolved).triggeredKeywords

\* C13: with two invocations on distinct sessions interleaved at their
\* awaits, every step changes the locals of one invocation only, a step of an
\* invocation leaves the stored analysis of the other session as it is, and
\* the record an invocation assembles has the score, severity,
\* categoryBreakdown and triggeredKeywords of a run of its session alone.
C13_ConcurrentInvocationsIndependent ==
    [][\A p \in Procs :
          /\ proc'[p] # proc[p] =>
                 /\ \A q \in Procs \ {p} : proc'[q] = proc[q]
                 /\ \A s \in Sessions \ {proc'[p].sessionId} :
                        getThreatAnalysisBySession(threatAnalysis', s)
                            = getThreatAnalysisBySession(threatAnalysis, s)
          /\ proc'[p].pc \in {"store", "done"} =>
                 LET r == proc'[p].analysisRecord
                     s == proc'[p].sessionId
                 IN  /\ r.sessionId = s
                     /\ r.threatScore = AloneScore(s).score
                     /\ r.severity = AloneScore(s).severity
                     /\ r.categoryBreakdown = AloneAggregated(s).categoryBreakdown
                     /\ r.triggeredKeywords = AloneKeywords(s)]_vars

\* both invocations were in flight together: the one that assembled its
\* record first has not stored it yet while the other has finished, and the
\* two records differ
C13_Witness ==
    \E p, q \in Procs :
        /\ proc[p].pc = "done"
        /\ proc[q].pc = "store"
        /\ proc[p].sessionId # proc[q].sessionId
        /\ proc[q].analysisRecord.createdAt < proc[p].analysisRecord.createdAt
        /\ proc[q].translationMap # <<>>
        /\ proc[p].analysisRecord.threatScore > 0
        /\ proc[q].analysisRecord.threatScore > proc[p].analysisRecord.threatScore

(***************************************************************************)
(* SpecScenario: analyzeSessionThreats over sessions whose segments speak  *)
(* of a bomb or of nothing threatening.                                    *)
(***************************************************************************)
\* the texts of the segments
ScenarioTexts == {"bomb", "Bomb, bomb!", "bomb bomb bomb", "the weather"}

\* the transcripts store with the given texts as the segments of session s1
ScenarioTranscripts(texts) ==
    [i \in 1..Len(texts) |->
        [ sessionId |-> "s1", chunkId |-> "chunk-" \o ToString(i - 1),
          text |-> texts[i], language |-> "english", startTime |-> 30 * (i - 1) ]]

InitScenario ==
    /\ AppIdle
    /\ ScoreIdle
    /\ ChunkIdle
    /\ AggIdle
    /\ \E texts \in SeqsUpTo(ScenarioTexts, MaxTranscripts) :
           transcripts = ScenarioTranscripts(texts)
    /\ translations = <<>>
    /\ threatAnalysis = <<>>
    /\ clock = 0
    /\ proc = [p \in Procs |-> idleProc]
    /\ latest = [s \in Sessions |-> noRun]

SpecScenario == InitScenario /\ [][Next]_vars

\* the number of tokens of a text that are the word, in any letter case
CountToken(text, word) ==
    LET tokens == tokenizeText(text)
    IN  Cardinality({i \in 1..Len(tokens) : toLowerCase(tokens[i]) = word})

\* the tokens of a text that are entries of the English dictionary
DictionaryTokens(text) ==
    LET tokens == tokenizeText(text)
    IN  {toLowerCase(tokens[i]) : i \in 1..Len(tokens)}
            \cap LoweredEntries(THREAT_DICTIONARIES.english)

\* C15: when the word "bomb" occurs 4 times across 3 segments of a session
\* and no other token of the session is a dictionary entry, the analysis has
\* weapons count 4 and no other count, repetition bonus 1 and spread bonus 1
\* (bonus term 2), score 14 and severity HIGH_RISK.
C15_BombFourTimesInThreeSegments ==
    \A p \in Assembled :
        LET segs == proc[p].transcripts
            occ == [i \in 1..Len(segs) |-> CountToken(segs[i].text, "bomb")]
            r == proc[p].analysisRecord
        IN  (/\ SumOver(occ, [i \in 1..Len(segs) |-> i]) = 4
             /\ Cardinality({i \in 1..Len(segs) : occ[i] > 0}) = 3
             /\ \A i \in 1..Len(segs) : DictionaryTokens(segs[i].text) \subseteq {"bomb"}) =>
                /\ r.categoryBreakdown = [ violent_actions |-> 0, weapons |-> 4,
                                           events |-> 0, targets |-> 0, urgency |-> 0 ]
                /\ proc[p].threatScore.breakdown.weapons = 12
                /\ repetitionFactor(proc[p].aggregated.totalMatches,
                                    Cardinality(proc[p].aggregated.uniqueWords)) = 1
                /\ spreadBonus(r.chunksInvolved) = 1
                /\ proc[p].threatScore.breakdown.repetition_bonus = 2
                /\ r.threatScore = 14
                /\ r.severity = "HIGH_RISK"

\* the session of the scenario has been analysed and its record stored
C15_Witness ==
    \E p \in Procs :
        /\ proc[p].pc = "done"
        /\ Len(proc[p].transcripts) = 3
        /\ proc[p].transcripts[2].text = "Bomb, bomb!"
        /\ \A i \in {1, 3} : proc[p].transcripts[i].text = "bomb"
        /\ proc[p].analysisRecord.threatScore = 14
        /\ getThreatAnalysisBySession(threatAnalysis, "s1") = proc[p].analysisRecord

\* the lists that hold the elements of a list in any order
Reorderings(list) ==
    { [i \in 1..Len(list) |-> list[f[i]]] : f \in Permutations(1..Len(list)) }

\* steps 3 to 5 of analyzeSessionThreats on the segments as storage returned
\* them
analyzeSegments(segments, translationMap) ==
    LET chunkAnalyses == detectThreatsInSession(segments, translationMap)
        aggregated == aggregateSessionMatches(chunkAnalyses)
    IN  [ aggregated |-> aggregated,
          threatScore |-> calculateThreatScore(chunkAnalyses,
                                               aggregated.categoryBreakdown,
                                               aggregated.uniqueWords,
                                               aggregated.chunksInvolved) ]

\* C26: the score, severity, categoryBreakdown and chunksInvolved of the
\* record an analysis assembles do not depend on the order in which storage
\* returned the session's transcript segments: every reordering of the
\* segments gives the same four values.
C26_OrderOfSegmentsIrrelevant ==
    \A p \in Assembled :
        \A segments \in Reorderings(proc[p].transcripts) :
            LET a == analyzeSegments(segments, proc[p].translationMap)
                r == proc[p].analysisRecord
            IN  /\ r.threatScore = a.threatScore.score
                /\ r.severity = a.threatScore.severity
                /\ r.categoryBreakdown = a.aggregated.categoryBreakdown
                /\ r.chunksInvolved = a.aggregated.chunksInvolved

C26_Witness ==
    \E p \in Assembled :
        /\ Len(proc[p].transcripts) = 3
        /\ proc[p].transcripts[1].text = "the weather"
        /\ proc[p].transcripts[2].text # proc[p].transcripts[3].text
        /\ proc[p].analysisRecord.chunksInvolved = 2
        /\ proc[p].analysisRecord.threatScore > 0

(***************************************************************************)
(* SpecAggregate: aggregateSessionMatches and calculateThreatScore on      *)
(* every bounded list of chunk analyses, the empty list included.          *)
(***************************************************************************)
\* the chunk analyses the lists are made of: one without matches, three with
AnalysisSamples ==
    { detectThreatsInChunk([ chunkId |-> "chunk-0", text |-> text,
                             language |-> "english", startTime |-> 0 ],
                           text, "") :
        text \in {"the weather", "bomb", "Bomb, bomb now!", "Attack the camp"} }

InitAggregate ==
    /\ AppIdle
    /\ aggArgs \in [chunkAnalyses : SeqsUpTo(AnalysisSamples, MaxTranscripts)]
    /\ aggResult = NoResult
    /\ ScoreIdle
    /\ ChunkIdle
    /\ PipeIdle

\* aggregateSessionMatches on the chosen list, then calculateThreatScore on
\* the aggregate
CallAggregateAndScore ==
    /\ aggArgs # NoResult
    /\ aggResult = NoResult
    /\ LET aggregated == aggregateSessionMatches(aggArgs.chunkAnalyses)
       IN  aggResult' = [ aggregated |-> aggregated,
                          threatScore |->
                              calculateThreatScore(aggArgs.chunkAnalyses,
                                                   aggregated.categoryBreakdown,
                                                   aggregated.uniqueWords,
                                                   aggregated.chunksInvolved) ]
    /\ UNCHANGED <<aggArgs, scoreVars, chunkVars, pipeVars, appVars>>

NextAggregate == CallAggregateAndScore

SpecAggregate == InitAggregate /\ [][NextAggregate]_vars

AggregateCalled == aggArgs # NoResult /\ aggResult # NoResult

\* C16: aggregation and scoring give a result for every list of chunk
\* analyses; for the empty list, and for any list without a match, the
\* aggregate has all-zero counts, an empty set of unique words, chunksInvolved
\* 0 and no matches, and its score is 0 with severity SAFE and an all-zero
\* breakdown.
C16_AggregationAndScoringTotal ==
    AggregateCalled =>
        LET aggregated == aggResult.aggregated
            threatScore == aggResult.threatScore
        IN  /\ aggregated.totalMatches \in Nat
            /\ aggregated.chunksInvolved \in 0..Len(aggArgs.chunkAnalyses)
            /\ threatScore.score \in Nat
            /\ threatScore.severity \in {"SAFE", "SUSPICIOUS", "HIGH_RISK"}
            /\ (\A i \in 1..Len(aggArgs.chunkAnalyses) :
                    aggArgs.chunkAnalyses[i].matches = <<>>) =>
                   /\ aggregated.categoryBreakdown = [c \in ThreatCategory |-> 0]
                   /\ aggregated.uniqueWords = {}
                   /\ aggregated.chunksInvolved = 0
                   /\ aggregated.allMatches = <<>>
                   /\ aggregated.totalMatches = 0
                   /\ threatScore.score = 0
                   /\ threatScore.severity = "SAFE"
                   /\ \A c \in DOMAIN threatScore.breakdown :
                          threatScore.breakdown[c] = 0

\* the empty list of chunk analyses has been aggregated and scored
C16_Witness ==
    /\ AggregateCalled
    /\ aggArgs.chunkAnalyses = <<>>
    /\ aggResult.threatScore.score = 0

(***************************************************************************)
(* SpecWords: analyzeSessionThreats over sessions whose segments hold      *)
(* single occurrences of dictionary words, some listed in two categories.  *)
(***************************************************************************)
\* the texts of the segments; attack and strike are entries of both the
\* violent_actions and the events list
WordTexts == {"attack", "Strike now", "bomb", "the weather"}

InitWords ==
    /\ AppIdle
    /\ ScoreIdle
    /\ ChunkIdle
    /\ AggIdle
    /\ \E texts \in SeqsUpTo(WordTexts, MaxTranscripts) :
           transcripts = ScenarioTranscripts(texts)
    /\ translations = <<>>
    /\ threatAnalysis = <<>>
    /\ clock = 0
    /\ proc = [p \in Procs |-> idleProc]
    /\ latest = [s \in Sessions |-> noRun]

SpecWords == InitWords /\ [][Next]_vars

\* the lowercased tokens of the texts of a list of segments
SessionTokens(segs) ==
    UNION { DictionaryTokens(segs[i].text) : i \in 1..Len(segs) }

\* no dictionary word occurs more than once as a token of the segments
NoWordRepeated(segs) ==
    \A w \in SessionTokens(segs) :
        SumOver([i \in 1..Len(segs) |-> CountToken(segs[i].text, w)],
                [i \in 1..Len(segs) |-> i]) <= 1

\* the repetition part of the bonus term of an invocation's score
RepetitionPart(p) ==
    proc[p].threatScore.breakdown.repetition_bonus
        - spreadBonus(proc[p].aggregated.chunksInvolved)

\* C22: when no dictionary word occurs more than once among the texts scanned
\* for a session, the repetition bonus of the session's score is 0, also when
\* a token is listed in more than one category.
C22_NoRepeatedWordNoRepetitionBonus ==
    \A p \in Assembled :
        NoWordRepeated(proc[p].transcripts) => RepetitionPart(p) = 0

(***************************************************************************)
(* SpecEntries: detectThreatsInChunk on a text that consists of one entry  *)
(* of the dictionary of the chunk's language.                              *)
(***************************************************************************)
\* the entries of the dictionary of a language
EntriesOf(language) ==
    UNION { { THREAT_DICTIONARIES[language][c][i] :
                  i \in 1..Len(THREAT_DICTIONARIES[language][c]) } :
            c \in ThreatCategory }

InitEntries ==
    /\ AppIdle
    /\ \E language \in DOMAIN THREAT_DICTIONARIES :
           \E w \in EntriesOf(language) :
               chunkArgs = [ chunk |-> [ chunkId |-> "chunk-1",
                                         language |-> language,
                                         startTime |-> 30 ],
                             sourceText |-> w,
                             translatedText |-> "" ]
    /\ chunkResult = NoResult
    /\ ScoreIdle
    /\ AggIdle
    /\ PipeIdle

SpecEntries == InitEntries /\ [][NextChunk]_vars

\* C24: every dictionary entry is matchable: the matches of a text that
\* consists of the entry w, in w's language, hold a match whose word is w
\* (entries that contain a space included).
C24_EveryEntryMatchesItself ==
    ChunkCalled =>
        \E i \in 1..Len(chunkResult.matches) :
            chunkResult.matches[i].word = chunkArgs.sourceText

(***************************************************************************)
(* SpecEvidence: the analysis of a session's segments (detectThreatsIn-    *)
(* Session, aggregateSessionMatches, calculateThreatScore) redone as the   *)
(* evidence grows by a segment or by a word in a segment.                  *)
(***************************************************************************)
MaxSegments == 3
MaxSegmentTokens == 3

\* the texts of the segments that are appended
EvidenceTexts == {"bomb", "bomb bomb", "Attack the camp"}

\* the words that are added to a segment
EvidenceWords == {"now"}

\* steps 3 to 5 of analyzeSessionThreats on english segments with the texts
analyzeTexts(texts) ==
    LET chunkAnalyses == detectThreatsInSession(ScenarioTranscripts(texts), <<>>)
        aggregated == aggregateSessionMatches(chunkAnalyses)
    IN  [ aggregated |-> aggregated,
          threatScore |-> calculateThreatScore(chunkAnalyses,
                                               aggregated.categoryBreakdown,
                                               aggregated.uniqueWords,
                                               aggregated.chunksInvolved) ]

InitEvidence ==
    /\ AppIdle
    /\ aggArgs = [texts |-> <<>>]
    /\ aggResult = analyzeTexts(<<>>)
    /\ ScoreIdle
    /\ ChunkIdle
    /\ PipeIdle

\* a segment is appended to the session and the session is analyzed
AppendSegment ==
    /\ Len(aggArgs.texts) < MaxSegments
    /\ \E text \in EvidenceTexts :
           /\ aggArgs' = [texts |-> Append(aggArgs.texts, text)]
           /\ aggResult' = analyzeTexts(Append(aggArgs.texts, text))
    /\ UNCHANGED <<scoreVars, chunkVars, pipeVars, appVars>>

\* a word is added to the text of a segment and the session is analyzed
AddWord ==
    /\ \E i \in 1..Len(aggArgs.texts) :
           /\ Len(tokenizeText(aggArgs.texts[i])) < MaxSegmentTokens
           /\ \E word \in EvidenceWords :
                  LET texts == [aggArgs.texts EXCEPT ![i] = @ \o " " \o word]
                  IN  /\ aggArgs' = [texts |-> texts]
                      /\ aggResult' = analyzeTexts(texts)
    /\ UNCHANGED <<scoreVars, chunkVars, pipeVars, appVars>>

NextEvidence == AppendSegment \/ AddWord

SpecEvidence == InitEvidence /\ [][NextEvidence]_vars

\* the order of the severities
SeverityRank == [SAFE |-> 0, SUSPICIOUS |-> 1, HIGH_RISK |-> 2]

\* C25: the score is monotonic in the evidence: appending a segment, or
\* adding a word (and so possibly a match) to an existing segment, never
\* lowers the session's score nor its severity.
C25_ScoreMonotonicInEvidence ==
    [][ /\ aggResult'.threatScore.score >= aggResult.threatScore.score
        /\ SeverityRank[aggResult'.threatScore.severity]
               >= SeverityRank[aggResult.threatScore.severity] ]_vars

C25_Witness ==
    /\ Len(aggArgs.texts) = MaxSegments
    /\ aggResult.aggregated.chunksInvolved > 2
    /\ aggResult.aggregated.totalMatches > Cardinality(aggResult.aggregated.uniqueWords) + 1
    /\ \E i \in 1..Len(aggArgs.texts) : aggArgs.texts[i] \notin EvidenceTexts
    /\ aggResult.threatScore.severity = "HIGH_RISK"

(***************************************************************************)
(* SpecStore: the threat analysis storage service on the object store      *)
(* 'threatAnalysis' (storeThreatAnalysis, getThreatAnalysisBySession,      *)
(* deleteThreatAnalysisBySession).                                         *)
(***************************************************************************)
MaxStored == 2

\* the records analyzeSessionThreats hands to storeThreatAnalysis for a
\* session; n stands for Date.now() in the analysisId
StoredRecords(s) ==
    { [ analysisId |-> "analysis-" \o s \o "-" \o ToString(n), sessionId |-> s,
        severity |-> severity ] :
      n \in 1..MaxStored, severity \in {"SAFE", "HIGH_RISK"} }

\* deleteThreatAnalysisBySession emptying the store (store.clear())
deleteThreatAnalysisBySessionClearing(store, sessionId) == <<>>

\* deleteThreatAnalysisBySession: index.getKey(sessionId) gives the primary
\* key of the session's first record, store.delete(key) removes the record
\* stored under that key; without a key the store is left as it is
deleteThreatAnalysisBySession(store, sessionId) ==
    LET found == getAllBySession(store, sessionId)
    IN  IF found = <<>> THEN store
        ELSE SelectSeq(store, LAMBDA r :
                 threatAnalysisKey(r) # threatAnalysisKey(found[1]))

InitStore ==
    /\ ScoreIdle
    /\ ChunkIdle
    /\ AggIdle
    /\ PipeIdle
    /\ page = NoResult
    /\ sessions = NoResult
    /\ whisper = NoResult
    /\ storeCall = [ op |-> "none", sessionId |-> "", result |-> NoResult,
                     stored |-> [s \in Sessions |-> 0] ]

\* storeThreatAnalysis(analysis) resolves
CallStoreThreatAnalysis ==
    /\ \E s \in Sessions :
           /\ storeCall.stored[s] < MaxStored
           /\ \E analysis \in StoredRecords(s) :
                  /\ analysis.analysisId
                         = "analysis-" \o s \o "-" \o ToString(storeCall.stored[s] + 1)
                  /\ threatAnalysis' = putThreatAnalysis(threatAnalysis, analysis)
                  /\ storeCall' = [ op |-> "store", sessionId |-> s,
                                    result |-> NoResult,
                                    stored |-> [storeCall.stored EXCEPT ![s] = @ + 1] ]
    /\ UNCHANGED <<transcripts, translations, clock, proc, latest, page, sessions,
                   whisper, scoreVars, chunkVars, aggVars>>

\* getThreatAnalysisBySession(sessionId) resolves
CallGetThreatAnalysisBySession ==
    /\ \E s \in Sessions :
           storeCall' = [storeCall EXCEPT
                            !.op = "get", !.sessionId = s,
                            !.result = getThreatAnalysisBySession(threatAnalysis, s)]
    /\ UNCHANGED <<pipeVars, page, sessions, whisper, scoreVars, chunkVars, aggVars>>

\* deleteThreatAnalysisBySession(sessionId) resolves
CallDeleteThreatAnalysisBySession ==
    /\ \E s \in Sessions :
           /\ threatAnalysis' = deleteThreatAnalysisBySession(threatAnalysis, s)
           /\ storeCall' = [storeCall EXCEPT
                               !.op = "delete", !.sessionId = s, !.result = NoResult]
    /\ UNCHANGED <<transcripts, translations, clock, proc, latest, page, sessions,
                   whisper, scoreVars, chunkVars, aggVars>>

NextStore ==
    \/ CallStoreThreatAnalysis
    \/ CallGetThreatAnalysisBySession
    \/ CallDeleteThreatAnalysisBySession

SpecStore == InitStore /\ [][NextStore]_vars

mountedPage ==
    [ currentSession |-> "", hasAudio |-> FALSE,
      isTranscribing |-> FALSE, sessionTranscript |-> "",
      isTranslating |-> FALSE, sessionTranslation |-> "",
      threatAnalysis |-> "", isAnalyzingThreats |-> FALSE,
      transcribing |-> {}, translating |-> {}, analyzing |-> {} ]

InitPage ==
    /\ ScoreIdle
    /\ ChunkIdle
    /\ AggIdle
    /\ PipeIdle
    /\ storeCall = NoResult
    /\ whisper = NoResult
    /\ page = mountedPage
    /\ sessions = [s \in Sessions |-> "none"]

\* updateSessionStatus: the status of the session's record is overwritten
updateSessionStatus(store, sessionId, status) ==
    [store EXCEPT ![sessionId] = status]

\* handleCreateSession, offered while there is no current session;
\* createSession saves a session with a new identifier
handleCreateSession ==
    /\ page.currentSession = ""
    /\ \E s \in Sessions :
           /\ sessions[s] = "none"
           /\ sessions' = [sessions EXCEPT ![s] = "initialized"]
           /\ page' = [page EXCEPT !.currentSession = s]
    /\ UNCHANGED <<storeCall, whisper, scoreVars, chunkVars, aggVars, pipeVars>>

\* handleRecordComplete and handleFileSelected, offered while the session has
\* no audio
handleRecordComplete ==
    /\ page.currentSession # ""
    /\ ~page.hasAudio
    /\ sessions' = updateSessionStatus(sessions, page.currentSession, "audio_attached")
    /\ page' = [page EXCEPT !.hasAudio = TRUE]
    /\ UNCHANGED <<storeCall, whisper, scoreVars, chunkVars, aggVars, pipeVars>>

\* handleTranscribe starts; its button is shown while hasAudio and no
\* transcript, and disabled while isTranscribing
handleTranscribe ==
    /\ page.currentSession # ""
    /\ page.hasAudio
    /\ page.sessionTranscript = ""
    /\ ~page.isTranscribing
    /\ page' = [page EXCEPT !.isTranscribing = TRUE,
                            !.transcribing = @ \cup {page.currentSession}]
    /\ UNCHANGED <<sessions, storeCall, whisper, scoreVars, chunkVars, aggVars, pipeVars>>

\* handleTranscribe settles: the transcripts are stored and shown, or the
\* catch branch ran; finally clears isTranscribing
TranscribeSettles(s, ok) ==
    /\ s \in page.transcribing
    /\ sessions' = IF ok THEN updateSessionStatus(sessions, s, "transcribed")
                   ELSE sessions
    /\ page' = [page EXCEPT !.transcribing = @ \ {s},
                            !.sessionTranscript = IF ok THEN s ELSE @,
                            !.isTranscribing = FALSE]
    /\ UNCHANGED <<storeCall, whisper, scoreVars, chunkVars, aggVars, pipeVars>>

\* handleTranslate starts; its button is shown while there is a transcript,
\* no translation and no translation running
handleTranslate ==
    /\ page.currentSession # ""
    /\ page.sessionTranscript # ""
    /\ page.sessionTranslation = ""
    /\ ~page.isTranslating
    /\ page' = [page EXCEPT !.isTranslating = TRUE,
                            !.translating = @ \cup {page.currentSession}]
    /\ UNCHANGED <<sessions, storeCall, whisper, scoreVars, chunkVars, aggVars, pipeVars>>

\* handleTranslate settles
TranslateSettles(s, ok) ==
    /\ s \in page.translating
    /\ sessions' = IF ok THEN updateSessionStatus(sessions, s, "translated")
                   ELSE sessions
    /\ page' = [page EXCEPT !.translating = @ \ {s},
                            !.sessionTranslation = IF ok THEN s ELSE @,
                            !.isTranslating = FALSE]
    /\ UNCHANGED <<storeCall, whisper, scoreVars, chunkVars, aggVars, pipeVars>>

\* handleAnalyzeThreats starts; its button is shown while there is a
\* transcript and no threat analysis, and disabled while isAnalyzingThreats
handleAnalyzeThreats ==
    /\ page.currentSession # ""
    /\ page.sessionTranscript # ""
    /\ page.threatAnalysis = ""
    /\ ~page.isAnalyzingThreats
    /\ page' = [page EXCEPT !.isAnalyzingThreats = TRUE,
                            !.analyzing = @ \cup {page.currentSession}]
    /\ UNCHANGED <<sessions, storeCall, whisper, scoreVars, chunkVars, aggVars, pipeVars>>

\* handleAnalyzeThreats settles: the record of the captured session is shown
\* and the status updated, or analyzeSessionThreats threw
AnalyzeSettles(s, ok) ==
    /\ s \in page.analyzing
    /\ sessions' = IF ok THEN updateSessionStatus(sessions, s, "analyzed")
                   ELSE sessions
    /\ page' = [page EXCEPT !.analyzing = @ \ {s},
                            !.threatAnalysis = IF ok THEN s ELSE @,
                            !.isAnalyzingThreats = FALSE]
    /\ UNCHANGED <<storeCall, whisper, scoreVars, chunkVars, aggVars, pipeVars>>

\* handleReset (New Session), offered while there is a transcript
handleReset ==
    /\ page.currentSession # ""
    /\ page.sessionTranscript # ""
    /\ page' = [page EXCEPT !.currentSession = "", !.hasAudio = FALSE,
                            !.isTranscribing = FALSE, !.sessionTranscript = "",
                            !.sessionTranslation = "", !.isTranslating = FALSE]
    /\ UNCHANGED <<sessions, storeCall, whisper, scoreVars, chunkVars, aggVars, pipeVars>>

NextPage ==
    \/ handleCreateSession
    \/ handleRecordComplete
    \/ handleTranscribe
    \/ \E s \in Sessions, ok \in BOOLEAN : TranscribeSettles(s, ok)
    \/ handleTranslate
    \/ \E s \in Sessions, ok \in BOOLEAN : TranslateSettles(s, ok)
    \/ handleAnalyzeThreats
    \/ \E s \in Sessions, ok \in BOOLEAN : AnalyzeSettles(s, ok)
    \/ handleReset

SpecPage == InitPage /\ [][NextPage]_vars

\* the stage of a status; createSession writes 'initialized' for a created
\* session
StatusRank ==
    [ none |-> 0, initialized |-> 1, created |-> 1, audio_attached |-> 2,
      transcribed |-> 3, translated |-> 4, analyzed |-> 5 ]

\* C28: under any sequence of user actions on the page, the stored status of
\* a session only moves forward along created, audio_attached, transcribed,
\* translated, analyzed: no step takes it to an earlier stage.
C28_StatusOnlyMovesForward ==
    [][\A s \in Sessions :
          StatusRank[sessions'[s]] >= StatusRank[sessions[s]]]_vars

\* C29: after handleReset no state of the previous session remains on the
\* page: a current session never has the threat analysis of another session
\* on the page, which would be shown in its place and would hide the button
\* that starts its own analysis.
C29_NoAnalysisOfPreviousSession ==
    page.currentSession # "" =>
        page.threatAnalysis \in {"", page.currentSession}

(***************************************************************************)
(* SpecWhisper: the module state of the Whisper service (whisperPipeline,  *)
(* isModelLoading, modelLoadError) under calls of initializeWhisperModel,  *)
(* unloadModel and resetModelState.                                        *)
(***************************************************************************)
\* the callers of initializeWhisperModel
Callers == {"c1", "c2", "c3"}

\* the module as imported; a call is idle, loading (it runs the pipeline
\* download), waiting (it polls isModelLoading every 500 ms), resolved or
\* rejected
InitWhisper ==
    /\ ScoreIdle
    /\ ChunkIdle
    /\ AggIdle
    /\ PipeIdle
    /\ storeCall = NoResult
    /\ page = NoResult
    /\ sessions = NoResult
    /\ whisper = [ whisperPipeline |-> FALSE, isModelLoading |-> FALSE,
                   modelLoadError |-> FALSE,
                   call |-> [c \in Callers |-> "idle"] ]

\* the calls that run a load
LoadsInFlight == {c \in Callers : whisper.call[c] = "loading"}

\* initializeWhisperModel up to its first await
initializeWhisperModel(c) ==
    /\ whisper.call[c] \in {"idle", "resolved", "rejected"}
    /\ whisper' =
           IF whisper.whisperPipeline
           THEN [whisper EXCEPT !.call[c] = "resolved"]
           ELSE IF whisper.isModelLoading
           THEN [whisper EXCEPT !.call[c] = "waiting"]
           ELSE [whisper EXCEPT !.isModelLoading = TRUE,
                                !.modelLoadError = FALSE,
                                !.call[c] = "loading"]
    /\ UNCHANGED <<storeCall, page, sessions, scoreVars, chunkVars, aggVars, pipeVars>>

\* the load of a call ends: Promise.race gave the pipeline, or the catch
\* branch ran (download error or the 3-minute timeout)
LoadEnds(c, ok) ==
    /\ whisper.call[c] = "loading"
    /\ whisper' = IF ok
                  THEN [whisper EXCEPT !.whisperPipeline = TRUE,
                                       !.isModelLoading = FALSE,
                                       !.call[c] = "resolved"]
                  ELSE [whisper EXCEPT !.isModelLoading = FALSE,
                                       !.modelLoadError = TRUE,
                                       !.call[c] = "rejected"]
    /\ UNCHANGED <<storeCall, page, sessions, scoreVars, chunkVars, aggVars, pipeVars>>

\* the interval of a waiting call fires while isModelLoading is false
checkInterval(c) ==
    /\ whisper.call[c] = "waiting"
    /\ ~whisper.isModelLoading
    /\ whisper' = [whisper EXCEPT
                      !.call[c] = IF whisper.whisperPipeline THEN "resolved"
                                  ELSE "rejected"]
    /\ UNCHANGED <<storeCall, page, sessions, scoreVars, chunkVars, aggVars, pipeVars>>

\* unloadModel
unloadModel ==
    /\ whisper' = [whisper EXCEPT !.whisperPipeline = FALSE,
                                  !.modelLoadError = FALSE]
    /\ UNCHANGED <<storeCall, page, sessions, scoreVars, chunkVars, aggVars, pipeVars>>

\* resetModelState
resetModelState ==
    /\ whisper' = [whisper EXCEPT !.isModelLoading = FALSE,
                                  !.modelLoadError = FALSE,
                                  !.whisperPipeline = FALSE]
    /\ UNCHANGED <<storeCall, page, sessions, scoreVars, chunkVars, aggVars, pipeVars>>

NextWhisper ==
    \/ \E c \in Callers : initializeWhisperModel(c)
    \/ \E c \in Callers, ok \in BOOLEAN : LoadEnds(c, ok)
    \/ \E c \in Callers : checkInterval(c)
    \/ unloadModel
    \/ resetModelState

SpecWhisper == InitWhisper /\ [][NextWhisper]_vars

\* C30: under any interleaving of initializeWhisperModel, unloadModel and
\* resetModelState at most one model load is in flight, and a call made
\* during a load starts no load of its own and settles only once no load is
\* in flight, resolved exactly if the pipeline is loaded at that moment.
C30_AtMostOneLoadInFlight ==
    [][ /\ Cardinality({c \in Callers : whisper'.call[c] = "loading"}) <= 1
        /\ \A c \in Callers :
               (whisper.call[c] = "waiting" /\ whisper'.call[c] # "waiting") =>
                   /\ LoadsInFlight = {}
                   /\ whisper'.call[c] = "resolved" <=> whisper.whisperPipeline
      ]_vars

====
